---- MODULE Spec2Model ----
(***************************************************************************)
(* UniversalAPI: the response-synthesis pipeline of app/generator.py,      *)
(* app/state.py and app/routes/content_routes.py.                          *)
(*                                                                         *)
(* Text is modelled as a sequence of one-character strings, so that        *)
(* strip(), split(), startswith(), "in", lower() and int() are computed    *)
(* the way Python computes them.                                           *)
(***************************************************************************)
EXTENDS Integers, Sequences, FiniteSets, TLC

(***************************************************************************)
(* Bounds of the model.                                                    *)
(***************************************************************************)
\* catch-all requests (GET or POST, two keys) in one run of the server
MaxReq == 2
\* GET requests for one key in one run of the server
MaxGets == 3
\* characters one generator stream yields to a /random request
MaxText == 4

VARIABLES
    call,           \* SpecParse: the function applied and its argument
    out,            \* SpecParse: what it returned
    req,            \* per request: route, method, url_path, query
    hpc,            \* per request: where its handler stands
    ppc,            \* per request: where the producer task of its stream stands
    stream,         \* per request: what token_stream has yielded so far
    buffer,         \* stream_page_for_path: buffer
    status_holder,  \* stream_page_for_path: status_holder["status"]
    mime_holder,    \* stream_page_for_path: mime_holder["mime"]
    queue,          \* stream_page_for_path: queue
    parsed_line,    \* the line given to parse_status_and_mime by the producer
    ret,            \* what stream_page_for_path returned: status and mime
    parts,          \* the fragments the caller took from the body iterator
    resp,           \* the response of the request
    gen_calls,      \* per request: calls of stream_page_for_path
    task,           \* per request: the remember_page task it created
    hist,           \* per request: what held when it arrived and completed
    cache,          \* app/state.py: cache
    page_memory,    \* app/memory.py: page_memory
    memory_file,    \* app/memory.py: the file MEMORY_FILE
    mc,             \* per call of remember_page: where it stands, its arguments
    memory_lock,    \* app/memory.py: memory_lock, its holder and whether a thread is blocked on it
    client,         \* per request: whether its client is still connected
    sent            \* per request: the body fragments sent to its client

parseVars == <<call, out>>

streamVars == <<ppc, stream, buffer, status_holder, mime_holder, queue, parsed_line>>

handlerVars == <<req, hpc, ret, parts, resp, gen_calls, task, hist, cache>>

memoryVars == <<page_memory, memory_file, mc, memory_lock>>

clientVars == <<client, sent>>

vars == <<call, out, req, hpc, ppc, stream, buffer, status_holder, mime_holder, queue, parsed_line, ret, parts, resp, gen_calls, task, hist, cache, page_memory, memory_file, mc, memory_lock, client, sent>>

(***************************************************************************)
(* app/memory.py: memory_lock, a threading.Lock.  Everything runs on the   *)
(* one thread of the event loop, and a step of the model is the code       *)
(* between two suspension points; holder is the remember_page call that    *)
(* holds the lock when a step ends (0: nobody), blocked tells that the     *)
(* thread is stuck in acquire().                                           *)
(***************************************************************************)
\* line 13: memory_lock = threading.Lock()
LockFree == [holder |-> 0, blocked |-> FALSE]

\* mutant: the summarizer is awaited inside the with block of line 126
HolderAtAwaitIsCaller(c) == c

\* lines 126-137: the with block of line 126 ends at line 127, before the
\* await of line 137
HolderAtAwait(c) == 0

\* lines 126, 140, 161: with memory_lock, entered by call c (0: by a call
\* of get_related_memory), finds the lock held by another
LockBusy(c) == memory_lock.holder \notin {0, c}

\* the thread blocks in acquire(), and nothing changes any more
BlocksOnLock == memory_lock' = [memory_lock EXCEPT !.blocked = TRUE]

\* the thread of the event loop is not blocked
LoopRuns == ~memory_lock.blocked

\* Python's None where a text is expected: no text holds this element
None == <<"None">>

(***************************************************************************)
(* Python str operations on character sequences.                           *)
(***************************************************************************)
WhiteSpace == {" ", "\t", "\n", "\r", "\f"}

AsciiDigits == <<"0", "1", "2", "3", "4", "5", "6", "7", "8", "9">>

\* SUPERSCRIPT TWO: str.isdigit() accepts it, int() raises ValueError on it
SuperscriptTwo == "sup2"

UpperCase == <<"A","B","C","D","E","F","G","H","I","J","K","L","M","N","O","P","Q","R","S","T","U","V","W","X","Y","Z">>

LowerCase == <<"a","b","c","d","e","f","g","h","i","j","k","l","m","n","o","p","q","r","s","t","u","v","w","x","y","z">>

IsSpace(c) == c \in WhiteSpace

IsAsciiDigit(c) == \E i \in 1..10 : AsciiDigits[i] = c

RECURSIVE LStrip(_)
LStrip(s) == IF s # <<>> /\ IsSpace(Head(s)) THEN LStrip(Tail(s)) ELSE s

RECURSIVE RStrip(_)
RStrip(s) == IF s # <<>> /\ IsSpace(s[Len(s)]) THEN RStrip(SubSeq(s, 1, Len(s) - 1)) ELSE s

\* str.strip()
Strip(s) == RStrip(LStrip(s))

\* length of the first whitespace-free run of a string that starts with one
TokenEnd(t) == CHOOSE n \in 1..Len(t) : (\A j \in 1..n : ~IsSpace(t[j])) /\ (n = Len(t) \/ IsSpace(t[n + 1]))

\* str.split() with no argument: the whitespace-separated tokens
RECURSIVE Split(_)
Split(s) ==
    LET t == LStrip(s)
    IN  IF t = <<>> THEN <<>>
        ELSE <<SubSeq(t, 1, TokenEnd(t))>> \o Split(SubSeq(t, TokenEnd(t) + 1, Len(t)))

\* " ".join(ps)
RECURSIVE JoinSpace(_)
JoinSpace(ps) ==
    IF ps = <<>> THEN <<>>
    ELSE IF Len(ps) = 1 THEN ps[1]
    ELSE ps[1] \o <<" ">> \o JoinSpace(Tail(ps))

\* "".join(ps)
RECURSIVE Join(_)
Join(ps) == IF ps = <<>> THEN <<>> ELSE Head(ps) \o Join(Tail(ps))

\* sub in s
Contains(s, sub) == \E i \in 0..(Len(s) - Len(sub)) : SubSeq(s, i + 1, i + Len(sub)) = sub

\* s.startswith(pre)
StartsWith(s, pre) == Len(s) >= Len(pre) /\ SubSeq(s, 1, Len(pre)) = pre

\* s.endswith(suf)
EndsWith(s, suf) == Len(s) >= Len(suf) /\ SubSeq(s, Len(s) - Len(suf) + 1, Len(s)) = suf

LowerChar(c) == IF \E i \in 1..26 : UpperCase[i] = c THEN LowerCase[CHOOSE i \in 1..26 : UpperCase[i] = c] ELSE c

\* s.lower()
Lower(s) == [i \in 1..Len(s) |-> LowerChar(s[i])]

\* str.isdigit(): non-empty and every character a digit character
IsDigit(tok) == tok # <<>> /\ \A i \in 1..Len(tok) : IsAsciiDigit(tok[i]) \/ tok[i] = SuperscriptTwo

\* int(tok) raises ValueError
IntRaises(tok) == \E i \in 1..Len(tok) : ~IsAsciiDigit(tok[i])

DigitValue(c) == CHOOSE d \in 0..9 : AsciiDigits[d + 1] = c

\* int(tok) of a string of ASCII digits
RECURSIVE IntOf(_)
IntOf(tok) == IF tok = <<>> THEN 0 ELSE 10 * IntOf(SubSeq(tok, 1, Len(tok) - 1)) + DigitValue(tok[Len(tok)])

\* s.split("\n", 1): the text before the first newline, and the text after it
FirstNewline(s) == CHOOSE i \in 1..Len(s) : s[i] = "\n" /\ \A j \in 1..(i - 1) : s[j] # "\n"

BeforeNewline(s) == SubSeq(s, 1, FirstNewline(s) - 1)

AfterNewline(s) == SubSeq(s, FirstNewline(s) + 1, Len(s))

(***************************************************************************)
(* String literals of the program.                                         *)
(***************************************************************************)
TEXT_HTML == <<"t","e","x","t","/","h","t","m","l">>

TEXT_SLASH == <<"t","e","x","t","/">>

CHARSET == <<"c","h","a","r","s","e","t">>

CHARSET_UTF8 == <<";"," ","c","h","a","r","s","e","t","=","u","t","f","-","8">>

APPLICATION_JSON == <<"a","p","p","l","i","c","a","t","i","o","n","/","j","s","o","n">>

JSON == <<"j","s","o","n">>

API == <<"a","p","i">>

DATA == <<"d","a","t","a">>

XML == <<"x","m","l">>

TEXT_XML == <<"t","e","x","t","/","x","m","l">>

(***************************************************************************)
(* app/generator.py                                                        *)
(***************************************************************************)
\* mutant: "charset" is looked for in the mime as written, not in its lower case
NormalizeMimeCaseSensitive(mime) ==
    LET m0 == Strip(mime)
        m1 == IF m0 = <<>> \/ ~Contains(m0, <<"/">>) THEN TEXT_HTML ELSE m0
    IN  IF StartsWith(m1, TEXT_SLASH) /\ ~Contains(m1, CHARSET)
        THEN m1 \o CHARSET_UTF8
        ELSE m1

_normalize_mime(mime) ==
    LET m0 == Strip(mime)
        m1 == IF m0 = <<>> \/ ~Contains(m0, <<"/">>) THEN TEXT_HTML ELSE m0
    IN  IF StartsWith(m1, TEXT_SLASH) /\ ~Contains(Lower(m1), CHARSET)
        THEN m1 \o CHARSET_UTF8
        ELSE m1

\* mutant: a numeric first token is a status even when nothing follows it
HasStatusTokenAlone(line) == line # <<>> /\ IsDigit(Split(line)[1])

\* line 101: the first token is a status and a mime follows it
HasStatusToken(line) == line # <<>> /\ IsDigit(Split(line)[1]) /\ Len(Split(line)) >= 2

\* lines 96-106: the status before it is sanitized
RawStatus(first_line) ==
    LET line == Strip(first_line)
    IN  IF HasStatusToken(line)
        THEN IF IntRaises(Split(line)[1]) THEN 200 ELSE IntOf(Split(line)[1])
        ELSE 200

\* lines 97-110: the text handed to _normalize_mime
MimePart(first_line) ==
    LET line == Strip(first_line)
    IN  IF line = <<>> THEN TEXT_HTML
        ELSE IF HasStatusToken(line) THEN JoinSpace(Tail(Split(line)))
        ELSE line

\* mutant: the range rule is dropped
SanitizeStatusNoClamp(status) == IF status = 404 THEN 418 ELSE status

\* mutant: the 404 rule is dropped
SanitizeStatusKeeps404(status) == IF status < 100 \/ status > 599 THEN 200 ELSE status

\* lines 112-118
SanitizeStatus(status) ==
    LET s1 == IF status < 100 \/ status > 599 THEN 200 ELSE status
    IN  IF s1 = 404 THEN 418 ELSE s1

parse_status_and_mime(first_line) ==
    [status |-> SanitizeStatus(RawStatus(first_line)),
     mime   |-> _normalize_mime(MimePart(first_line))]

(***************************************************************************)
(* SpecParse: the two pure functions applied to bounded sets of inputs.    *)
(***************************************************************************)
StatusTokens ==
    { <<"0">>, <<"9","9">>, <<"1","0","0">>, <<"2","0","0">>, <<"2","0","1">>,
      <<"4","0","4">>, <<"0","4","0","4">>, <<"4","1","8">>, <<"5","0","0">>,
      <<"5","9","9">>, <<"6","0","0">>, <<"4","0","4","0">>,
      <<"2", SuperscriptTwo>>, <<SuperscriptTwo>> }

MimeTexts ==
    { TEXT_HTML,
      <<"t","e","x","t","/","p","l","a","i","n">>,
      <<"t","e","x","t","/","p","l","a","i","n",";"," ","c","h","a","r","s","e","t","=","a","s","c","i","i">>,
      <<"t","e","x","t","/","h","t","m","l",";"," ","C","H","A","R","S","E","T","=","U","T","F","-","8">>,
      <<"T","E","X","T","/","h","t","m","l">>,
      APPLICATION_JSON,
      APPLICATION_JSON \o CHARSET_UTF8,
      <<"i","m","a","g","e","/","p","n","g">>,
      <<"h","t","m","l">>,
      <<"c","h","a","r","s","e","t","=","u","t","f","-","8">>,
      <<"4","0","4">>,
      <<"a","/","b",";","\t","x","=","1">> }

Separators == { <<" ">>, <<" ", " ">>, <<"\t">> }

Paddings == { <<>>, <<" ">>, <<"\r">> }

\* header lines: "<status> <mime>", "<mime>", "<status>", and blank lines
HeaderLines ==
    { l \o s \o sep \o m \o t : l \in {<<>>, <<" ">>}, s \in StatusTokens, sep \in Separators, m \in MimeTexts, t \in Paddings }
    \cup { l \o m \o t : l \in {<<>>, <<" ">>}, m \in MimeTexts \cup StatusTokens, t \in Paddings }
    \cup { <<>>, <<" ">>, <<"\t", "\r">> }

\* arguments of _normalize_mime
MimeInputs == { l \o m \o t : l \in {<<>>, <<" ">>}, m \in MimeTexts \cup {<<>>}, t \in Paddings }

ParseIdle ==
    /\ call = [fn |-> "-", arg |-> <<>>]
    /\ out = None

CallParse(line) ==
    /\ call.fn = "-"
    /\ call' = [fn |-> "parse_status_and_mime", arg |-> line]
    /\ out' = parse_status_and_mime(line)
    /\ UNCHANGED <<streamVars, handlerVars, memoryVars, clientVars>>

CallNormalize(mime) ==
    /\ call.fn = "-"
    /\ call' = [fn |-> "_normalize_mime", arg |-> mime]
    /\ out' = _normalize_mime(mime)
    /\ UNCHANGED <<streamVars, handlerVars, memoryVars, clientVars>>

(***************************************************************************)
(* app/memory.py: link extraction.                                         *)
(***************************************************************************)
\* pieces of one body given to the link extraction
MaxPieces == 3

\* line 48: href="
HREF_QUOTE == <<"h","r","e","f","=","\"">>

\* line 48: the characters [^"#?"] excludes
LinkStop == {"\"", "#", "?"}

\* line 48: where the run of [^"#?"]* that starts at i ends (the position after it)
RunEnd(html, i) ==
    IF \E j \in i..Len(html) : html[j] \in LinkStop
    THEN CHOOSE j \in i..Len(html) : html[j] \in LinkStop /\ \A k \in i..(j - 1) : html[k] \notin LinkStop
    ELSE Len(html) + 1

\* line 48: the pattern href="(/[^"#?"]*)" matches at position i
MatchesAt(html, i) ==
    /\ i + Len(HREF_QUOTE) <= Len(html)
    /\ SubSeq(html, i, i + Len(HREF_QUOTE) - 1) = HREF_QUOTE
    /\ html[i + Len(HREF_QUOTE)] = "/"
    /\ RunEnd(html, i + Len(HREF_QUOTE)) <= Len(html)
    /\ html[RunEnd(html, i + Len(HREF_QUOTE))] = "\""

\* line 48: re.findall, the groups of the matches from position i on, which
\* do not overlap
RECURSIVE FindAll(_, _)
FindAll(html, i) ==
    IF ~(\E j \in i..Len(html) : MatchesAt(html, j)) THEN <<>>
    ELSE LET j == CHOOSE j \in i..Len(html) : MatchesAt(html, j) /\ \A k \in i..(j - 1) : ~MatchesAt(html, k)
         IN  <<SubSeq(html, j + Len(HREF_QUOTE), RunEnd(html, j + Len(HREF_QUOTE)) - 1)>>
             \o FindAll(html, RunEnd(html, j + Len(HREF_QUOTE)) + 1)

\* lines 49-55: each href once, in the order of first occurrence
RECURSIVE FirstSeen(_)
FirstSeen(hrefs) ==
    IF hrefs = <<>> THEN <<>>
    ELSE LET before == FirstSeen(SubSeq(hrefs, 1, Len(hrefs) - 1))
             h == hrefs[Len(hrefs)]
         IN  IF \E k \in 1..Len(before) : before[k] = h THEN before ELSE Append(before, h)

\* mutant: every match is listed, also a repeated one
ExtractLinksWithRepeats(html) == FindAll(html, 1)

_extract_internal_links_from_html(html) == FirstSeen(FindAll(html, 1))

\* remember_page lines 110, 121-123: the links stored for a body of a content type
PageLinks(content_type, body) ==
    IF StartsWith(Lower(content_type), TEXT_HTML)
    THEN _extract_internal_links_from_html(body)
    ELSE <<>>

\* pieces of a body: href="/a", href="/a#t", href="/b", href="/a?q", <p>,
\* href="b", HREF="/c", href="/"
BodyPieces ==
    { HREF_QUOTE \o <<"/","a","\"">>,
      HREF_QUOTE \o <<"/","a","#","t","\"">>,
      HREF_QUOTE \o <<"/","b","\"">>,
      HREF_QUOTE \o <<"/","a","?","q","\"">>,
      <<"<","p",">">>,
      HREF_QUOTE \o <<"b","\"">>,
      <<"H","R","E","F","=","\"","/","c","\"">>,
      HREF_QUOTE \o <<"/","\"">> }

LinkBodies == { Join(ps) : ps \in UNION { [1..n -> BodyPieces] : n \in 1..MaxPieces } }

LinkContentTypes ==
    { TEXT_HTML, TEXT_HTML \o CHARSET_UTF8, <<"T","e","x","t","/","H","T","M","L">>,
      <<"t","e","x","t","/","p","l","a","i","n">>, APPLICATION_JSON }

CallPageLinks(content_type, body) ==
    /\ call.fn = "-"
    /\ call' = [fn |-> "PageLinks", arg |-> <<content_type, body>>]
    /\ out' = PageLinks(content_type, body)
    /\ UNCHANGED <<streamVars, handlerVars, memoryVars, clientVars>>

(***************************************************************************)
(* app/memory.py: get_related_memory.  The dict page_memory is read in its *)
(* insertion order, so the store is given here as the sequence of its      *)
(* items, each a path with the links of its record.  A score is kept       *)
(* doubled, 2 * token_score + backlink_score, to stay an integer.          *)
(***************************************************************************)
MaxStore == 3

\* line 155: limit: int = 5
DefaultLimit == 5

\* lines 167, 184: re.split(r"[/\-]+", ...)
PathSeparators == {"/", "-"}

\* lines 168: the tokens the query path does not count
StopSet == { API, DATA, JSON }

\* where the piece of s that starts at i ends
PieceEnd(s, i) == CHOOSE j \in i..Len(s) : j = Len(s) \/ s[j + 1] \in PathSeparators

\* lines 167, 184: the non-empty pieces of s between the separators
SplitPath(s) ==
    { SubSeq(s, i, PieceEnd(s, i)) :
        i \in { k \in 1..Len(s) : s[k] \notin PathSeparators /\ (k = 1 \/ s[k - 1] \in PathSeparators) } }

\* mutant: the stop words stay among the tokens of the query path
QueryTokensUnfiltered(url_path) == SplitPath(Lower(url_path))

\* lines 165-169: tokens
QueryTokens(url_path) == SplitPath(Lower(url_path)) \ StopSet

\* lines 183-185: other_tokens
OtherTokens(path) == SplitPath(Lower(path))

\* lines 174-177: backlinks.get(link, 0)
Backlinks(items, link) ==
    Cardinality({ e \in { <<i, k>> : i \in 1..Len(items), k \in 1..MaxStore } :
                    e[2] <= Len(items[e[1]].links) /\ items[e[1]].links[e[2]] = link })

\* line 186
token_score(items, url_path, i) == Cardinality(QueryTokens(url_path) \cap OtherTokens(items[i].path))

\* mutant: the backlinks of the candidate are counted
BacklinkScoreOfCandidate(items, url_path, i) == Backlinks(items, items[i].path)

\* lines 188-190
backlink_score(items, url_path, i) == Backlinks(items, url_path)

\* line 192, doubled
score(items, url_path, i) == 2 * token_score(items, url_path, i) + backlink_score(items, url_path, i)

\* lines 180-181
Skipped(path, url_path) == path = <<"/">> \/ path = url_path

\* lines 179-194: scores, as the indices of the items appended
Candidates(items, url_path) ==
    { i \in 1..Len(items) : ~Skipped(items[i].path, url_path) /\ score(items, url_path, i) > 0 }

\* mutant: the sort is ascending
PlaceAscending(items, url_path, i) ==
    1 + Cardinality({ j \in Candidates(items, url_path) :
                        \/ score(items, url_path, j) < score(items, url_path, i)
                        \/ score(items, url_path, j) = score(items, url_path, i) /\ j < i })

\* line 196: the place of candidate i after the stable sort, highest score
\* first
Place(items, url_path, i) ==
    1 + Cardinality({ j \in Candidates(items, url_path) :
                        \/ score(items, url_path, j) > score(items, url_path, i)
                        \/ score(items, url_path, j) = score(items, url_path, i) /\ j < i })

\* mutant: the limit is not applied
TakeAll(n, limit) == n

\* line 199: how many of n entries scores[:limit] keeps
Take(n, limit) == IF n > limit THEN limit ELSE n

\* lines 155-201: the paths of the result, in order
get_related_memory(items, url_path, limit) ==
    IF items = <<>> THEN <<>>
    ELSE [n \in 1..Take(Cardinality(Candidates(items, url_path)), limit) |->
             items[CHOOSE i \in Candidates(items, url_path) : Place(items, url_path, i) = n].path]

\* stored paths and query paths
CARS_HYBRID == <<"/","c","a","r","s","/","h","y","b","r","i","d">>

ELECTRIC_CARS == <<"/","e","l","e","c","t","r","i","c","-","c","a","r","s">>

FUEL_ECONOMY == <<"/","f","u","e","l","-","e","c","o","n","o","m","y">>

HYBRID_CARS_UPPER == <<"/","H","y","b","r","i","d","-","C","a","r","s">>

API_CARS == <<"/","a","p","i","/","c","a","r","s">>

StoredPaths == { <<"/">>, CARS_HYBRID, ELECTRIC_CARS, FUEL_ECONOMY, HYBRID_CARS_UPPER, API_CARS }

API_DATA_UPPER == <<"/","A","P","I","/","d","a","t","a">>

QueryPaths == { CARS_HYBRID, API_CARS, <<"/","C","a","r","s">>, API_DATA_UPPER }

\* the links of a stored record
StoredLinks == { <<>>, <<CARS_HYBRID, API_CARS>> }

\* the items of a store: up to MaxStore records of different paths
RECURSIVE StoresOf(_)
StoresOf(n) ==
    IF n = 0 THEN { <<>> }
    ELSE StoresOf(n - 1) \cup
         { Append(st, [path |-> path, links |-> links]) :
             st \in { t \in StoresOf(n - 1) : Len(t) = n - 1 }, path \in StoredPaths, links \in StoredLinks }

Stores == { st \in StoresOf(MaxStore) : \A i \in 1..Len(st), j \in 1..Len(st) : i # j => st[i].path # st[j].path }

Limits == { 1, DefaultLimit }

CallRelated(items, url_path, limit) ==
    /\ call.fn = "-"
    /\ call' = [fn |-> "get_related_memory", arg |-> <<items, url_path, limit>>]
    /\ out' = get_related_memory(items, url_path, limit)
    /\ UNCHANGED <<streamVars, handlerVars, memoryVars, clientVars>>

\* mutant: a key that is assigned again moves to the end of the dict
DictSetMovesToEnd(items, path, rec) == SelectSeq(items, LAMBDA e : e.path # path) \o <<rec>>

\* line 141: page_memory[url_path] = {...}; a dict keeps the place of a key
\* it already has, and puts a new key at its end
DictSet(items, path, rec) ==
    IF \E i \in 1..Len(items) : items[i].path = path
    THEN [i \in 1..Len(items) |-> IF items[i].path = path THEN rec ELSE items[i]]
    ELSE Append(items, rec)

\* full stores without links, in every order of insertion
OrderStores == { st \in Stores : Len(st) = MaxStore /\ \A i \in 1..Len(st) : st[i].links = <<>> }

\* query paths that tie several stored paths
OrderQueries == { CARS_HYBRID, <<"/","C","a","r","s">> }

\* lines 139-146, then 155-201: the path of item i is remembered again with
\* new links, and the related pages of url_path are looked up
RememberThenRelated(items, i, links, url_path, limit) ==
    /\ call.fn = "-"
    /\ call' = [fn |-> "remember_page, get_related_memory", arg |-> <<items, url_path, limit, items[i].path, links>>]
    /\ out' = get_related_memory(DictSet(items, items[i].path, [path |-> items[i].path, links |-> links]), url_path, limit)
    /\ UNCHANGED <<streamVars, handlerVars, memoryVars, clientVars>>

(***************************************************************************)
(* Requests.  A catch-all request is GET or POST /{url_path}?{query}; a    *)
(* /random request streams a page through stream_page_for_path.  The       *)
(* url paths are those the text pipeline serves (not favicon.ico, not      *)
(* *.png, which return before the pipeline).                               *)
(***************************************************************************)
Reqs == 1..(IF MaxReq > MaxGets THEN MaxReq ELSE MaxGets)

Methods == {"GET", "POST"}

UrlPaths == { <<"a">> }

Queries == { <<>>, <<"q">> }

NoRequest == [route |-> "-", method |-> "-", url_path |-> <<>>, query |-> <<>>]

\* status_code 0: nothing has been sent
NoResponse == [status_code |-> 0, media_type |-> <<>>, body |-> <<>>]

NoResult == [status |-> 0, mime |-> None]

NoHistory == [before |-> {}, cached |-> FALSE, quiet |-> FALSE, branch |-> "-", related |-> None]

\* what the generator yields to a catch-all request, fragment by fragment
H_JSON == <<"2","0","0"," ","a","p","p","l","i","c","a","t","i","o","n","/","j","s","o","n","\n">>

B_JSON == <<" ","{","\"","a","\"",":","1","}","\n">>

H_404 == <<"4","0","4"," ","t","e","x","t","/","h","t","m","l","\n","<","p",">">>

B_TEXT == <<"h","i">>

H_XML == <<"2","0","1"," ","t","e","x","t","/","x","m","l","\n","<","a",">">>

B_XML == <<"<","/","a",">">>

\* the streams the generator may yield to a catch-all request; it may also
\* stop or fail after any fragment of one
Scripts == { <<H_JSON, B_JSON>>, <<H_404>>, <<B_TEXT>>, <<H_XML, B_XML>> }

\* what the generator yields to a /random request: every non-empty text
Alphabet == {"a", "b", "\n"}

SmallTexts == UNION { [1..n -> Alphabet] : n \in 1..MaxText }

\* the fragments token_stream may yield next (non-empty: ai_client.py line 55)
NextChunks(r) ==
    IF req[r].route = "random"
    THEN { c \in SmallTexts : Len(stream[r].text) + Len(c) <= MaxText }
    ELSE { s[stream[r].n + 1] : s \in { t \in Scripts : Len(t) > stream[r].n /\ Join(SubSeq(t, 1, stream[r].n)) = stream[r].text } }

\* f"{url_path}?{query}"
cache_key(url_path, query) == url_path \o <<"?">> \o query

CacheKey(r) == cache_key(req[r].url_path, req[r].query)

normalized_path(url_path) == IF StartsWith(url_path, <<"/">>) THEN url_path ELSE <<"/">> \o url_path

\* a request that is between its arrival and its response
InFlight(r) == hpc[r] \notin {"idle", "done"}

Done(r) == hpc[r] = "done"

(***************************************************************************)
(* app/generator.py: stream_page_for_path.  queue.put on the unbounded     *)
(* queue never suspends, so the producer runs from one fragment of         *)
(* token_stream to the next in one step.                                   *)
(***************************************************************************)
\* mutant: the buffer is cut at its last newline
SplitAtLastNewline(buf) ==
    LET i == CHOOSE k \in 1..Len(buf) : buf[k] = "\n" /\ \A j \in (k + 1)..Len(buf) : buf[j] # "\n"
    IN  [first_line |-> SubSeq(buf, 1, i - 1), rest |-> SubSeq(buf, i + 1, Len(buf))]

\* line 151: first_line, rest = buffer.split("\n", 1)
SplitHeader(buf) == [first_line |-> BeforeNewline(buf), rest |-> AfterNewline(buf)]

\* lines 131-142, 177: the holders, the queue, and the producer task
StartStream(r) ==
    /\ ppc' = [ppc EXCEPT ![r] = "running"]
    /\ gen_calls' = [gen_calls EXCEPT ![r] = @ + 1]
    /\ buffer' = [buffer EXCEPT ![r] = <<>>]
    /\ status_holder' = [status_holder EXCEPT ![r] = 200]
    /\ mime_holder' = [mime_holder EXCEPT ![r] = None]
    /\ queue' = [queue EXCEPT ![r] = <<>>]
    /\ UNCHANGED <<stream, parsed_line>>

\* mutant: every fragment is taken for a part of the header
AwaitingHeaderAlways(r) == TRUE

\* line 148: if mime_holder["mime"] is None
AwaitingHeader(r) == mime_holder[r] = None

\* lines 147-158: one fragment arrives
ProducerChunk(r, chunk) ==
    /\ ppc[r] = "running"
    /\ stream' = [stream EXCEPT ![r] = [text |-> @.text \o chunk, n |-> @.n + 1]]
    /\ IF AwaitingHeader(r)
       THEN LET buf == buffer[r] \o chunk
            IN  /\ buffer' = [buffer EXCEPT ![r] = buf]
                /\ IF Contains(buf, <<"\n">>)
                   THEN LET cut == SplitHeader(buf)
                            parsed == parse_status_and_mime(cut.first_line)
                        IN  /\ parsed_line' = [parsed_line EXCEPT ![r] = cut.first_line]
                            /\ status_holder' = [status_holder EXCEPT ![r] = parsed.status]
                            /\ mime_holder' = [mime_holder EXCEPT ![r] = parsed.mime]
                            /\ queue' = [queue EXCEPT ![r] = IF cut.rest # <<>> THEN Append(@, cut.rest) ELSE @]
                   ELSE UNCHANGED <<parsed_line, status_holder, mime_holder, queue>>
       ELSE /\ queue' = [queue EXCEPT ![r] = Append(@, chunk)]
            /\ UNCHANGED <<buffer, parsed_line, status_holder, mime_holder>>
    /\ UNCHANGED <<ppc, parseVars, handlerVars, memoryVars, clientVars>>

\* mutant: a stream without a newline loses its buffer
ProducerEndDropsBuffer(r) ==
    /\ ppc[r] = "running"
    /\ ppc' = [ppc EXCEPT ![r] = "done"]
    /\ IF mime_holder[r] = None
       THEN /\ parsed_line' = [parsed_line EXCEPT ![r] = <<>>]
            /\ status_holder' = [status_holder EXCEPT ![r] = parse_status_and_mime(<<>>).status]
            /\ mime_holder' = [mime_holder EXCEPT ![r] = parse_status_and_mime(<<>>).mime]
            /\ queue' = [queue EXCEPT ![r] = Append(@, None)]
       ELSE /\ queue' = [queue EXCEPT ![r] = Append(@, None)]
            /\ UNCHANGED <<parsed_line, status_holder, mime_holder>>
    /\ UNCHANGED <<stream, buffer, parseVars, handlerVars, memoryVars, clientVars>>

\* lines 160-168: token_stream is exhausted
ProducerEnd(r) ==
    /\ ppc[r] = "running"
    /\ ppc' = [ppc EXCEPT ![r] = "done"]
    /\ IF mime_holder[r] = None
       THEN /\ parsed_line' = [parsed_line EXCEPT ![r] = <<>>]
            /\ status_holder' = [status_holder EXCEPT ![r] = parse_status_and_mime(<<>>).status]
            /\ mime_holder' = [mime_holder EXCEPT ![r] = parse_status_and_mime(<<>>).mime]
            /\ queue' = [queue EXCEPT ![r] = (IF buffer[r] # <<>> THEN Append(@, buffer[r]) ELSE @) \o <<None>>]
       ELSE /\ queue' = [queue EXCEPT ![r] = Append(@, None)]
            /\ UNCHANGED <<parsed_line, status_holder, mime_holder>>
    /\ UNCHANGED <<stream, buffer, parseVars, handlerVars, memoryVars, clientVars>>

\* mutant: without the finally clause, a failure enqueues no end marker
ProducerFailNoMarker(r) ==
    /\ ppc[r] = "running"
    /\ ppc' = [ppc EXCEPT ![r] = "failed"]
    /\ UNCHANGED <<queue, stream, buffer, parsed_line, status_holder, mime_holder, parseVars, handlerVars, memoryVars, clientVars>>

\* lines 146-147, 167-168: token_stream raises; the finally clause enqueues
\* the end marker and the exception ends the task, which nobody awaits
ProducerFail(r) ==
    /\ ppc[r] = "running"
    /\ ppc' = [ppc EXCEPT ![r] = "failed"]
    /\ queue' = [queue EXCEPT ![r] = Append(@, None)]
    /\ UNCHANGED <<stream, buffer, parsed_line, status_holder, mime_holder, parseVars, handlerVars, memoryVars, clientVars>>

\* mutant: the function returns without waiting for the header
HeaderKnownNoWait(r) == TRUE

\* lines 179-181: while mime_holder["mime"] is None: await asyncio.sleep(0)
HeaderKnown(r) == mime_holder[r] # None

\* line 183: return status_holder["status"], mime_holder["mime"], body_iter()
StreamResult(r) == [status |-> status_holder[r], mime |-> mime_holder[r]]

(***************************************************************************)
(* app/routes/content_routes.py: handle_request, the catch-all handler.    *)
(* The handler suspends at `await request.body()`, in the wait loop of     *)
(* stream_page_for_path and when the queue is empty; between two of these  *)
(* it runs in one step.  body_iter raises nothing (the producer's          *)
(* exception stays in its task), and stream_page_for_path raises nothing   *)
(* (token_stream is an async generator, whose body runs in the producer):  *)
(* the two except clauses of the handler, lines 360-363 and 391-394, have  *)
(* no step here.                                                           *)
(***************************************************************************)
\* lines 28-119, 362: the fallback error document
ERROR_HTML == <<"ERROR_HTML">>

\* mutant: the cache is never looked up
IsCacheHitNever(method, key) == FALSE

\* line 281: request.method == "GET" and cache_key in cache
IsCacheHit(method, key) == method = "GET" /\ key \in DOMAIN cache

\* mutant: every request writes the cache
WritesCacheAnyMethod(method) == TRUE

\* mutant: no request writes the cache
WritesCacheNever(method) == FALSE

\* lines 380 and 399: if request.method == "GET"
WritesCache(method) == method = "GET"

\* mutant: an entry that exists is kept
SetCacheEntryIfAbsent(key, value) == IF key \in DOMAIN cache THEN cache ELSE (key :> value) @@ cache

\* app/state.py lines 55-58: cache[key] = value
set_cache_entry(key, value) == (key :> value) @@ cache

\* lines 366-372
DoNotStream(media_type) ==
    \/ StartsWith(media_type, APPLICATION_JSON)
    \/ EndsWith(media_type, JSON)
    \/ EndsWith(media_type, XML)
    \/ StartsWith(media_type, TEXT_XML)
    \/ Contains(media_type, XML)

\* lines 365-411: which of the two paths of the handler a resolved mime takes
BranchOf(media_type) == IF DoNotStream(media_type) THEN "buffer_json_xml" ELSE "stream_other"

\* mimes that name JSON or XML in other places than the rule looks at
JsonXmlMimes ==
    { <<"t","e","x","t","/">> \o JSON,
      <<"t","e","x","t","/">> \o JSON \o CHARSET_UTF8,
      <<"a","p","p","l","i","c","a","t","i","o","n","/","l","d","+">> \o JSON,
      <<"a","p","p","l","i","c","a","t","i","o","n","/","l","d","+">> \o JSON \o CHARSET_UTF8,
      <<"A","p","p","l","i","c","a","t","i","o","n","/","J","S","O","N">>,
      TEXT_XML,
      <<"a","p","p","l","i","c","a","t","i","o","n","/">> \o XML \o CHARSET_UTF8,
      <<"i","m","a","g","e","/","s","v","g","+">> \o XML,
      <<"i","m","a","g","e","/","s","v","g","+">> \o XML \o CHARSET_UTF8,
      <<"t","e","x","t","/","X","M","L">> }

\* header lines the generator can open a stream with: an optional status
\* and a mime
BranchLines ==
    { s \o m \o t : s \in {<<>>, <<"2","0","0"," ">>, <<"4","0","4"," ">>},
                    m \in MimeTexts \cup JsonXmlMimes, t \in Paddings }

\* lines 351-372: the header line is resolved to a status and a mime, and
\* the mime decides the path
ChooseBranch(line) ==
    /\ call.fn = "-"
    /\ call' = [fn |-> "handle_request.branch", arg |-> line]
    /\ out' = [mime |-> parse_status_and_mime(line).mime,
               branch |-> BranchOf(parse_status_and_mime(line).mime)]
    /\ UNCHANGED <<streamVars, handlerVars, memoryVars, clientVars>>

\* mutant: the body is stripped, as edit_page_post strips it
FullBodyStripped(ps) == Strip(Join(ps))

\* lines 376 and 396: full_body = "".join(parts)
FullBody(ps) == Join(ps)

\* mutant: a cached entry is served with status 201
CachedResponseCreated(entry) == [status_code |-> 201, media_type |-> entry.content_type, body |-> entry.body]

\* mutant: a cached entry is served as text/html
CachedResponseAsHtml(entry) == [status_code |-> 200, media_type |-> TEXT_HTML, body |-> entry.body]

\* lines 282-283: Response(content=body, media_type=content_type)
CachedResponse(entry) == [status_code |-> 200, media_type |-> entry.content_type, body |-> entry.body]

\* requests arrive in the order of their numbers
CanArrive(r) == hpc[r] = "idle" /\ (IF r = 1 THEN TRUE ELSE hpc[r - 1] # "idle")

ArrivalHistory(key) == [before |-> {o \in Reqs : Done(o)}, cached |-> key \in DOMAIN cache, quiet |-> FALSE, branch |-> "-", related |-> None]

\* no other GET for the same key is being generated
Quiet(r) == \A o \in Reqs \ {r} : ~(InFlight(o) /\ req[o].route = "catchall" /\ req[o].method = "GET" /\ CacheKey(o) = CacheKey(r))

\* lines 273-283: CACHE HIT
ServeFromCache(r, method, url_path, query) ==
    /\ CanArrive(r)
    /\ IsCacheHit(method, cache_key(url_path, query))
    /\ req' = [req EXCEPT ![r] = [route |-> "catchall", method |-> method, url_path |-> url_path, query |-> query]]
    /\ resp' = [resp EXCEPT ![r] = CachedResponse(cache[cache_key(url_path, query)])]
    /\ hpc' = [hpc EXCEPT ![r] = "done"]
    /\ hist' = [hist EXCEPT ![r] = [ArrivalHistory(cache_key(url_path, query)) EXCEPT !.branch = "cache_hit"]]
    /\ UNCHANGED <<ret, parts, gen_calls, task, cache, streamVars, parseVars, memoryVars, clientVars>>

\* lines 285-305, with the related pages looked up at line 288, and, for a
\* GET, 348-359 up to the wait loop
BeginGenerate(r, method, url_path, query) ==
    /\ CanArrive(r)
    /\ ~IsCacheHit(method, cache_key(url_path, query))
    /\ IF LockBusy(0)
       THEN /\ BlocksOnLock
            /\ UNCHANGED <<req, hpc, hist, gen_calls, streamVars, page_memory, memory_file, mc>>
       ELSE /\ req' = [req EXCEPT ![r] = [route |-> "catchall", method |-> method, url_path |-> url_path, query |-> query]]
            /\ hist' = [hist EXCEPT ![r] = [ArrivalHistory(cache_key(url_path, query)) EXCEPT !.related = normalized_path(url_path)]]
            /\ IF method = "POST"
               THEN /\ hpc' = [hpc EXCEPT ![r] = "post_body"]
                    /\ UNCHANGED <<gen_calls, streamVars>>
               ELSE /\ hpc' = [hpc EXCEPT ![r] = "await_header"]
                    /\ StartStream(r)
            /\ UNCHANGED memoryVars
    /\ UNCHANGED <<ret, parts, resp, task, cache, parseVars, clientVars>>

\* lines 302-305, 348-359: the POST body has been read
ReadPostBody(r) ==
    /\ hpc[r] = "post_body"
    /\ hpc' = [hpc EXCEPT ![r] = "await_header"]
    /\ StartStream(r)
    /\ UNCHANGED <<req, ret, parts, resp, task, hist, cache, parseVars, memoryVars, clientVars>>

\* mutant: a failure of the producer is answered with the error document
ResponseOrErrorPage(r, result, body) ==
    IF ppc[r] = "failed"
    THEN [status_code |-> 500, media_type |-> TEXT_HTML \o CHARSET_UTF8, body |-> ERROR_HTML]
    ELSE [status_code |-> result.status, media_type |-> result.mime, body |-> body]

\* lines 383 and 409-411: Response(full_body, media_type=media_type,
\* status_code=status_code); the except clause of lines 392-395 is never
\* entered, because body_iter ends at the end marker also when the producer
\* failed
ResponseOf(r, result, body) == [status_code |-> result.status, media_type |-> result.mime, body |-> body]

\* mutant: the handler awaits the memory task before it responds
AwaitsMemoryTask == "await_memory"

\* lines 378-383 and 404-411: asyncio.create_task returns at once and the
\* handler returns its response
AfterCreateTask == "done"

\* lines 373-383 and 387-411: the handler takes what the queue holds; at the
\* end marker it joins the parts, writes the cache, creates the memory task
\* and responds
Drain(r, result) ==
    LET items == queue[r]
        frags == SelectSeq(items, LAMBDA x : x # None)
        ended == items # <<>> /\ items[Len(items)] = None
        body == FullBody(parts[r] \o frags)
    IN  /\ queue' = [queue EXCEPT ![r] = <<>>]
        /\ parts' = [parts EXCEPT ![r] = @ \o frags]
        /\ IF ended
           THEN /\ hpc' = [hpc EXCEPT ![r] = AfterCreateTask]
                /\ task' = [task EXCEPT ![r] = <<normalized_path(req[r].url_path), body, result.mime>>]
                /\ cache' = IF WritesCache(req[r].method)
                            THEN set_cache_entry(CacheKey(r), [content_type |-> result.mime, body |-> body])
                            ELSE cache
                /\ resp' = [resp EXCEPT ![r] = ResponseOf(r, result, body)]
                /\ hist' = [hist EXCEPT ![r].quiet = Quiet(r),
                                        ![r].branch = BranchOf(result.mime)]
           ELSE /\ hpc' = [hpc EXCEPT ![r] = "drain"]
                /\ UNCHANGED <<task, cache, resp, hist>>

\* generator.py lines 179-183, then content_routes.py lines 365-411
HeaderReturned(r) ==
    /\ req[r].route = "catchall"
    /\ hpc[r] = "await_header"
    /\ HeaderKnown(r)
    /\ ret' = [ret EXCEPT ![r] = StreamResult(r)]
    /\ Drain(r, StreamResult(r))
    /\ UNCHANGED <<req, gen_calls, ppc, stream, buffer, status_holder, mime_holder, parsed_line, parseVars, memoryVars, clientVars>>

\* lines 374 and 389: queue.get() returns
DrainMore(r) ==
    /\ req[r].route = "catchall"
    /\ hpc[r] = "drain"
    /\ queue[r] # <<>>
    /\ Drain(r, ret[r])
    /\ UNCHANGED <<req, ret, gen_calls, ppc, stream, buffer, status_holder, mime_holder, parsed_line, parseVars, memoryVars, clientVars>>

(***************************************************************************)
(* content_routes.py: random_page, which hands the stream through.         *)
(***************************************************************************)
\* lines 249-257 up to the wait loop
RandomPage(r) ==
    /\ CanArrive(r)
    /\ req' = [req EXCEPT ![r] = [route |-> "random", method |-> "GET", url_path |-> <<>>, query |-> <<>>]]
    /\ hpc' = [hpc EXCEPT ![r] = "await_header"]
    /\ StartStream(r)
    /\ UNCHANGED <<ret, parts, resp, task, hist, cache, parseVars, memoryVars, clientVars>>

\* generator.py lines 179-183, content_routes.py lines 263-265: the
\* response starts with the status and the media type
RandomReturn(r) ==
    /\ req[r].route = "random"
    /\ hpc[r] = "await_header"
    /\ HeaderKnown(r)
    /\ ret' = [ret EXCEPT ![r] = StreamResult(r)]
    /\ resp' = [resp EXCEPT ![r] = [status_code |-> StreamResult(r).status, media_type |-> StreamResult(r).mime, body |-> <<>>]]
    /\ hpc' = [hpc EXCEPT ![r] = "drain"]
    /\ UNCHANGED <<req, parts, gen_calls, task, hist, cache, streamVars, parseVars, memoryVars, clientVars>>

\* generator.py lines 170-175, content_routes.py lines 259-261: one item
\* is taken from the body iterator and sent
TakeFragment(r) ==
    /\ req[r].route = "random"
    /\ hpc[r] = "drain"
    /\ queue[r] # <<>>
    /\ queue' = [queue EXCEPT ![r] = Tail(@)]
    /\ IF Head(queue[r]) = None
       THEN /\ hpc' = [hpc EXCEPT ![r] = "done"]
            /\ UNCHANGED <<parts, resp>>
       ELSE /\ parts' = [parts EXCEPT ![r] = Append(@, Head(queue[r]))]
            /\ resp' = [resp EXCEPT ![r].body = @ \o Head(queue[r])]
            /\ UNCHANGED hpc
    /\ UNCHANGED <<req, ret, gen_calls, task, hist, cache, ppc, stream, buffer, status_holder, mime_holder, parsed_line, parseVars, memoryVars, clientVars>>

(***************************************************************************)
(* app/main.py: handle_request of the served application, whose streaming  *)
(* branch hands the body through tee().  StreamingResponse cancels the     *)
(* iteration of tee() when the client has disconnected; the handler itself *)
(* is not cancelled while it awaits the header or buffers a body.          *)
(***************************************************************************)
\* main.py lines 573-614: the header is known; a JSON or XML body is
\* buffered as in content_routes.py, any other body starts to stream
TeeReturn(r) ==
    /\ req[r].route = "catchall"
    /\ hpc[r] = "await_header"
    /\ HeaderKnown(r)
    /\ ret' = [ret EXCEPT ![r] = StreamResult(r)]
    /\ IF DoNotStream(StreamResult(r).mime)
       THEN Drain(r, StreamResult(r))
       ELSE /\ hpc' = [hpc EXCEPT ![r] = "streaming"]
            /\ resp' = [resp EXCEPT ![r] = [status_code |-> StreamResult(r).status, media_type |-> StreamResult(r).mime, body |-> <<>>]]
            /\ UNCHANGED <<queue, parts, task, cache, hist>>
    /\ UNCHANGED <<req, gen_calls, ppc, stream, buffer, status_holder, mime_holder, parsed_line, parseVars, memoryVars, clientVars>>

\* main.py lines 602-604: tee() takes a chunk, keeps it and yields it
TeeYield(r) ==
    /\ hpc[r] = "streaming"
    /\ queue[r] # <<>>
    /\ Head(queue[r]) # None
    /\ queue' = [queue EXCEPT ![r] = Tail(@)]
    /\ parts' = [parts EXCEPT ![r] = Append(@, Head(queue[r]))]
    /\ resp' = [resp EXCEPT ![r].body = @ \o Head(queue[r])]
    /\ sent' = [sent EXCEPT ![r] = Append(@, Head(queue[r]))]
    /\ UNCHANGED <<req, hpc, ret, gen_calls, task, hist, cache, ppc, stream, buffer, status_holder, mime_holder, parsed_line, parseVars, memoryVars, client>>

\* main.py lines 606-612: the stream has ended; tee() joins the parts,
\* creates the memory task and writes the cache
TeeFinish(r) ==
    /\ hpc[r] = "streaming"
    /\ queue[r] # <<>>
    /\ Head(queue[r]) = None
    /\ queue' = [queue EXCEPT ![r] = Tail(@)]
    /\ task' = [task EXCEPT ![r] = <<normalized_path(req[r].url_path), FullBody(parts[r]), ret[r].mime>>]
    /\ cache' = IF WritesCache(req[r].method)
                THEN set_cache_entry(CacheKey(r), [content_type |-> ret[r].mime, body |-> FullBody(parts[r])])
                ELSE cache
    /\ hpc' = [hpc EXCEPT ![r] = "done"]
    /\ UNCHANGED <<req, ret, parts, resp, gen_calls, hist, ppc, stream, buffer, status_holder, mime_holder, parsed_line, parseVars, memoryVars, clientVars>>

\* the client of a request that is not answered in full goes away
ClientDisconnect(r) ==
    /\ InFlight(r)
    /\ client[r] = "connected"
    /\ client' = [client EXCEPT ![r] = "disconnected"]
    /\ UNCHANGED <<sent, parseVars, streamVars, handlerVars, memoryVars>>

\* main.py line 614: StreamingResponse stops iterating tee() for a client
\* that is gone; the code after the loop of tee() is never run
CancelStream(r) ==
    /\ hpc[r] = "streaming"
    /\ client[r] = "disconnected"
    /\ hpc' = [hpc EXCEPT ![r] = "cancelled"]
    /\ UNCHANGED <<req, ret, parts, resp, gen_calls, task, hist, cache, parseVars, streamVars, memoryVars, clientVars>>

(***************************************************************************)
(* edit_page_post, which the repository has twice: in app/main.py, the     *)
(* application that is served, and in app/routes/utility_routes.py.  Both  *)
(* await generate_page_for_path, which returns the whole text at once.     *)
(***************************************************************************)
EditModules == { "main", "utility_routes" }

\* what generate_page_for_path returns for an edit
EditedTexts ==
    { <<"2","0","0"," ","t","e","x","t","/","h","t","m","l","\n"," ","n","e","w"," ","\n">>,
      <<"a","p","p","l","i","c","a","t","i","o","n","/","j","s","o","n","\n","{","}">>,
      <<"h","i">> }

\* str.partition("\n"): the text before the first newline and the text
\* after it
Partition(s) ==
    IF \E i \in 1..Len(s) : s[i] = "\n"
    THEN [first |-> BeforeNewline(s), rest |-> AfterNewline(s)]
    ELSE [first |-> s, rest |-> <<>>]

\* main.py lines 379-393, utility_routes.py lines 216-230: the POST arrives
\* and the handler awaits the generator
EditBegin(r, url_path, module) ==
    /\ CanArrive(r)
    /\ req' = [req EXCEPT ![r] = [route |-> module, method |-> "POST", url_path |-> url_path, query |-> <<>>]]
    /\ hist' = [hist EXCEPT ![r] = ArrivalHistory(cache_key(url_path, <<>>))]
    /\ hpc' = [hpc EXCEPT ![r] = "edit_generating"]
    /\ gen_calls' = [gen_calls EXCEPT ![r] = @ + 1]
    /\ UNCHANGED <<ret, parts, resp, task, cache, streamVars, parseVars, memoryVars, clientVars>>

\* main.py lines 401-404; utility_routes.py lines 238-245, where the write
\* is commented out
CacheAfterEdit(module, key, value) == IF module = "main" THEN set_cache_entry(key, value) ELSE cache

\* main.py lines 395-410, utility_routes.py lines 232-250: the text is
\* split, the page is stored and the client is redirected
EditReturns(r, response_body) ==
    LET result == parse_status_and_mime(Partition(response_body).first)
        full_body == Strip(Partition(response_body).rest)
    IN  /\ req[r].route \in EditModules
        /\ hpc[r] = "edit_generating"
        /\ ret' = [ret EXCEPT ![r] = result]
        /\ parts' = [parts EXCEPT ![r] = <<full_body>>]
        /\ cache' = CacheAfterEdit(req[r].route, req[r].url_path \o <<"?">>, [content_type |-> result.mime, body |-> full_body])
        /\ task' = [task EXCEPT ![r] = IF req[r].route = "main"
                                       THEN <<normalized_path(req[r].url_path), full_body, result.mime>>
                                       ELSE <<>>]
        /\ resp' = [resp EXCEPT ![r] = [status_code |-> 302, media_type |-> <<>>, body |-> <<>>]]
        /\ hpc' = [hpc EXCEPT ![r] = "done"]
        /\ UNCHANGED <<req, gen_calls, hist, streamVars, parseVars, memoryVars, clientVars>>

\* generate_page_for_path raises: the handler catches nothing and the
\* server answers 500
EditFails(r) ==
    /\ req[r].route \in EditModules
    /\ hpc[r] = "edit_generating"
    /\ resp' = [resp EXCEPT ![r] = [status_code |-> 500, media_type |-> <<>>, body |-> <<>>]]
    /\ hpc' = [hpc EXCEPT ![r] = "done"]
    /\ UNCHANGED <<req, ret, parts, gen_calls, task, hist, cache, streamVars, parseVars, memoryVars, clientVars>>

(***************************************************************************)
(* Specifications.                                                         *)
(***************************************************************************)
(***************************************************************************)
(* app/memory.py: remember_page.  The lock is a threading.Lock taken and   *)
(* released without an await in between, so a call runs in one step from   *)
(* its start to the await inside summarize_page_with_ai, and in one step   *)
(* from the summarizer's reply to its end.  last_updated (time.time()) is  *)
(* not part of a record here; of_body is a history field: the body the     *)
(* record's summary was produced from.                                     *)
(***************************************************************************)
\* calls of remember_page in one run
MaxCalls == 2

\* line 58: max_chars
max_chars == 6000

\* lines 99-100: the length of the snippet
SNIPPET_CHARS == 800

\* line 101
ELLIPSIS == <<" ", ".", ".", ".">>

NoFile == [state |-> "absent", content |-> <<>>]

NoCall == [pc |-> "idle", url_path |-> <<>>, body |-> <<>>, content_type |-> <<>>, sum_calls |-> 0, outcome |-> "-", write |-> "-"]

\* mutant: the check of the content type is missing
EligibleNoCheck(content_type) == TRUE

\* lines 110-113: only text-ish content is stored
Eligible(content_type) == StartsWith(Lower(content_type), TEXT_SLASH) \/ StartsWith(Lower(content_type), APPLICATION_JSON)

\* line 117: hashlib.sha256(body.encode("utf-8", "ignore")).hexdigest()
sha256(body) == <<"sha256", body>>

\* mutant: no summary is ever reused
ReusesSummaryNever(url_path, body_hash) == FALSE

\* mutant: the summary of the old entry is reused whatever its hash
ReusesSummaryAnyHash(url_path, body_hash) == url_path \in DOMAIN page_memory /\ page_memory[url_path].summary # <<>>

\* lines 126-134: the old entry has this hash and a summary
ReusesSummary(url_path, body_hash) ==
    /\ url_path \in DOMAIN page_memory
    /\ page_memory[url_path].hash = body_hash
    /\ page_memory[url_path].summary # <<>>

\* lines 63-65: the text given to the summarizer
SummaryText(body) == IF Len(Strip(body)) > max_chars THEN SubSeq(Strip(body), 1, max_chars) ELSE Strip(body)

\* mutant: the ellipsis is always appended
SnippetAlwaysEllipsis(text) == SubSeq(text, 1, IF Len(text) > SNIPPET_CHARS THEN SNIPPET_CHARS ELSE Len(text)) \o ELLIPSIS

\* lines 99-102: the crude snippet
Snippet(text) == IF Len(text) > SNIPPET_CHARS THEN SubSeq(text, 1, SNIPPET_CHARS) \o ELLIPSIS ELSE text

\* what generate_text_response does for the summarizer: it raises
SummarizerRaises == <<"Exception">>

\* what generate_text_response returns to the summarizer: "s", or a blank
SummarizerReplies == { <<"s">>, <<" ">>, SummarizerRaises }

\* lines 148-152: how the write of the file ends
WriteOutcomes == {"ok", "open_fails", "dump_fails"}

\* mutant: the file is written with the map as it was before the update
FileAfterStale(write, pm) ==
    IF write = "ok" THEN [state |-> "written", content |-> page_memory]
    ELSE IF write = "dump_fails" THEN [state |-> "partial", content |-> <<>>]
    ELSE memory_file

\* lines 148-152: the file after the write of the map pm
FileAfter(write, pm) ==
    IF write = "ok" THEN [state |-> "written", content |-> pm]
    ELSE IF write = "dump_fails" THEN [state |-> "partial", content |-> <<>>]
    ELSE memory_file

\* mutant: the dict of a path that has a record is patched in place
PatchedRecord(c, m, summary, of_body) ==
    [summary |-> summary, links |-> PageLinks(m.content_type, m.body), hash |-> sha256(m.body), of_body |-> of_body,
     obj |-> IF m.url_path \in DOMAIN page_memory THEN page_memory[m.url_path].obj ELSE c]

\* mutant: the hash is left empty, as the except clause of line 119 leaves it
RecordWithEmptyHash(c, m, summary, of_body) ==
    [summary |-> summary, links |-> PageLinks(m.content_type, m.body), hash |-> <<>>, of_body |-> of_body,
     obj |-> c]

\* lines 141-146: the dict literal makes a new object at every call; obj is
\* its identity, the number of the call that made it
NewRecord(c, m, summary, of_body) ==
    [summary |-> summary, links |-> PageLinks(m.content_type, m.body), hash |-> sha256(m.body), of_body |-> of_body,
     obj |-> c]

\* mutant: a write that fails undoes the update of the map and raises
StoreRecordOrRollBack(c, m, summary, of_body, outcome, write) ==
    /\ page_memory' = IF write = "ok"
                      THEN (m.url_path :> NewRecord(c, m, summary, of_body)) @@ page_memory
                      ELSE page_memory
    /\ memory_file' = FileAfter(write, page_memory')
    /\ memory_lock' = LockFree
    /\ mc' = [mc EXCEPT ![c] = [m EXCEPT !.pc = IF write = "ok" THEN "done" ELSE "raised", !.outcome = outcome, !.write = IF write = "ok" THEN "ok" ELSE "failed"]]

\* lines 139-152: call c, which stands as m, puts its record into the map
\* and writes the map to the file
StoreRecord(c, m, summary, of_body, outcome, write) ==
    /\ page_memory' = (m.url_path :> NewRecord(c, m, summary, of_body)) @@ page_memory
    /\ memory_file' = FileAfter(write, page_memory')
    /\ memory_lock' = LockFree
    /\ mc' = [mc EXCEPT ![c] = [m EXCEPT !.pc = "done", !.outcome = outcome, !.write = IF write = "ok" THEN "ok" ELSE "failed"]]

\* lines 105-137: the call up to the await of the summarizer, or to its end
\* when there is nothing to await
RememberFrom(c, url_path, body, content_type, write) ==
    LET m == [NoCall EXCEPT !.url_path = url_path, !.body = body, !.content_type = content_type]
    IN  IF ~Eligible(content_type)
        THEN /\ mc' = [mc EXCEPT ![c] = [m EXCEPT !.pc = "done", !.outcome = "ignored"]]
             /\ UNCHANGED <<page_memory, memory_file, memory_lock>>
        ELSE IF LockBusy(c)
        THEN /\ BlocksOnLock
             /\ UNCHANGED <<page_memory, memory_file, mc>>
        ELSE IF ReusesSummary(url_path, sha256(body))
        THEN StoreRecord(c, m, page_memory[url_path].summary, page_memory[url_path].of_body, "reused", write)
        ELSE IF SummaryText(body) = <<>>
        THEN StoreRecord(c, m, <<>>, body, "blank", write)
        ELSE /\ mc' = [mc EXCEPT ![c] = [m EXCEPT !.pc = "summarizing", !.sum_calls = 1]]
             /\ memory_lock' = [holder |-> HolderAtAwait(c), blocked |-> FALSE]
             /\ UNCHANGED <<page_memory, memory_file>>

\* calls start in the order of their numbers
CanCall(c) == mc[c].pc = "idle" /\ (IF c = 1 THEN TRUE ELSE mc[c - 1].pc # "idle")

\* the paths, bodies and content types remember_page is called with
MemPaths == { <<"/","a">>, <<"/","b">> }

LongBody == [i \in 1..(SNIPPET_CHARS + 1) |-> "x"]

MemBodies == { HREF_QUOTE \o <<"/","b","\"">>, <<" ","h","i","\n">>, <<" ">>, LongBody }

IMAGE_PNG == <<"i","m","a","g","e","/","p","n","g">>

MemContentTypes == { TEXT_HTML \o CHARSET_UTF8, APPLICATION_JSON, IMAGE_PNG, <<"T","e","x","t","/","P","l","a","i","n">> }

remember_page(c, url_path, body, content_type, write) ==
    /\ CanCall(c)
    /\ RememberFrom(c, url_path, body, content_type, write)
    /\ UNCHANGED <<parseVars, streamVars, handlerVars, clientVars>>

\* lines 88-102, 137-152: generate_text_response returns or raises, and the
\* call runs to its end
SummarizerReturns(c, reply, write) ==
    /\ mc[c].pc = "summarizing"
    /\ IF LockBusy(c)
       THEN BlocksOnLock /\ UNCHANGED <<page_memory, memory_file, mc>>
       ELSE IF reply = SummarizerRaises
       THEN StoreRecord(c, mc[c], Snippet(SummaryText(mc[c].body)), mc[c].body, "fallback", write)
       ELSE StoreRecord(c, mc[c], Strip(reply), mc[c].body, "summarized", write)
    /\ UNCHANGED <<parseVars, streamVars, handlerVars, clientVars>>

(***************************************************************************)
(* app/routes/api_routes.py: hard_reset_endpoint (the same in app/main.py  *)
(* lines 445-465).  clear_page_memory is imported from app/memory.py,      *)
(* which does not define it; it is taken to do what its call sites say,    *)
(* "wipe in-memory dict".  The image cache directory and the key file are  *)
(* not part of the state here.                                             *)
(***************************************************************************)
\* memory.py, missing: the page memory after clear_page_memory()
clear_page_memory == <<>>

\* api_routes.py lines 75-94: nothing is awaited, the endpoint runs in one
\* step; it imports clear_cache and does not call it
HardReset(r) ==
    /\ CanArrive(r)
    /\ req' = [req EXCEPT ![r] = [route |-> "hard_reset", method |-> "GET", url_path |-> <<>>, query |-> <<>>]]
    /\ hist' = [hist EXCEPT ![r] = ArrivalHistory(<<>>)]
    /\ page_memory' = clear_page_memory
    /\ memory_file' = NoFile
    /\ resp' = [resp EXCEPT ![r] = [status_code |-> 200, media_type |-> TEXT_SLASH \o <<"p","l","a","i","n">> \o CHARSET_UTF8, body |-> <<"Hard reset complete">>]]
    /\ hpc' = [hpc EXCEPT ![r] = "done"]
    /\ UNCHANGED <<ret, parts, gen_calls, task, cache, mc, memory_lock, streamVars, parseVars, clientVars>>

Init ==
    /\ ParseIdle
    /\ req = [r \in Reqs |-> NoRequest]
    /\ hpc = [r \in Reqs |-> "idle"]
    /\ ppc = [r \in Reqs |-> "none"]
    /\ stream = [r \in Reqs |-> [text |-> <<>>, n |-> 0]]
    /\ buffer = [r \in Reqs |-> <<>>]
    /\ status_holder = [r \in Reqs |-> 200]
    /\ mime_holder = [r \in Reqs |-> None]
    /\ queue = [r \in Reqs |-> <<>>]
    /\ parsed_line = [r \in Reqs |-> None]
    /\ ret = [r \in Reqs |-> NoResult]
    /\ parts = [r \in Reqs |-> <<>>]
    /\ resp = [r \in Reqs |-> NoResponse]
    /\ gen_calls = [r \in Reqs |-> 0]
    /\ task = [r \in Reqs |-> <<>>]
    /\ hist = [r \in Reqs |-> NoHistory]
    /\ cache = <<>>
    /\ page_memory = <<>>
    /\ memory_file = NoFile
    /\ mc = [c \in Reqs |-> NoCall]
    /\ memory_lock = LockFree
    /\ client = [r \in Reqs |-> "connected"]
    /\ sent = [r \in Reqs |-> <<>>]

\* the catch-all handler under concurrent requests
Next ==
    \E r \in 1..MaxReq :
        \/ \E method \in Methods, url_path \in UrlPaths, query \in Queries : ServeFromCache(r, method, url_path, query)
        \/ \E method \in Methods, url_path \in UrlPaths, query \in Queries : BeginGenerate(r, method, url_path, query)
        \/ ReadPostBody(r)
        \/ \E chunk \in NextChunks(r) : ProducerChunk(r, chunk)
        \/ ProducerEnd(r)
        \/ ProducerFail(r)
        \/ HeaderReturned(r)
        \/ DrainMore(r)

Spec == Init /\ [][Next]_vars

\* repeated and concurrent GETs of one key
NextRepeat ==
    \E r \in 1..MaxGets :
        \/ ServeFromCache(r, "GET", <<"a">>, <<>>)
        \/ BeginGenerate(r, "GET", <<"a">>, <<>>)
        \/ \E chunk \in NextChunks(r) : ProducerChunk(r, chunk)
        \/ ProducerEnd(r)
        \/ ProducerFail(r)
        \/ HeaderReturned(r)
        \/ DrainMore(r)

SpecRepeat == Init /\ [][NextRepeat]_vars

\* one stream, cut into fragments in every way, handed through by /random
NextDemux ==
    \/ RandomPage(1)
    \/ \E chunk \in NextChunks(1) : ProducerChunk(1, chunk)
    \/ ProducerEnd(1)
    \/ ProducerFail(1)
    \/ RandomReturn(1)
    \/ TakeFragment(1)

SpecDemux == Init /\ [][NextDemux]_vars

\* the same, with the event loop resuming the iteration of the body
\* whenever the queue holds an item (lines 171-172: await queue.get())
SpecDemuxFair == SpecDemux /\ WF_vars(TakeFragment(1))

\* the pure functions of generator.py
NextParse ==
    \/ \E line \in HeaderLines : CallParse(line)
    \/ \E mime \in MimeInputs : CallNormalize(mime)

SpecParse == Init /\ [][NextParse]_vars

\* the handler's choice of path for every resolved mime
NextBranch == \E line \in BranchLines : ChooseBranch(line)

SpecBranch == Init /\ [][NextBranch]_vars

\* concurrent calls of remember_page
NextMemory ==
    \E c \in 1..MaxCalls :
        \/ \E url_path \in MemPaths, body \in MemBodies, content_type \in MemContentTypes, write \in WriteOutcomes :
              remember_page(c, url_path, body, content_type, write)
        \/ \E reply \in SummarizerReplies, write \in WriteOutcomes : SummarizerReturns(c, reply, write)

SpecMemory == Init /\ [][NextMemory]_vars

\* memory.py line 105: the event loop starts the task request r created
RunTask(r, write) ==
    /\ task[r] # <<>>
    /\ mc[r].pc = "idle"
    /\ RememberFrom(r, task[r][1], task[r][2], task[r][3], write)
    /\ UNCHANGED <<parseVars, streamVars, handlerVars, clientVars>>

\* one request through the catch-all handler and the memory task it creates
NextTask ==
    \/ \E method \in Methods, url_path \in UrlPaths, query \in Queries : BeginGenerate(1, method, url_path, query)
    \/ ReadPostBody(1)
    \/ \E chunk \in NextChunks(1) : ProducerChunk(1, chunk)
    \/ ProducerEnd(1)
    \/ ProducerFail(1)
    \/ HeaderReturned(1)
    \/ DrainMore(1)
    \/ \E write \in WriteOutcomes : RunTask(1, write)
    \/ \E reply \in SummarizerReplies, write \in WriteOutcomes : SummarizerReturns(1, reply, write)

SpecTask == Init /\ [][NextTask]_vars

\* one request through the handler of app/main.py, its client and its
\* memory task
NextTee ==
    \/ \E method \in Methods, url_path \in UrlPaths, query \in Queries : BeginGenerate(1, method, url_path, query)
    \/ ReadPostBody(1)
    \/ \E chunk \in NextChunks(1) : ProducerChunk(1, chunk)
    \/ ProducerEnd(1)
    \/ ProducerFail(1)
    \/ TeeReturn(1)
    \/ DrainMore(1)
    \/ TeeYield(1)
    \/ TeeFinish(1)
    \/ ClientDisconnect(1)
    \/ CancelStream(1)
    \/ \E write \in WriteOutcomes : RunTask(1, write)
    \/ \E reply \in SummarizerReplies, write \in WriteOutcomes : SummarizerReturns(1, reply, write)

\* every task of the event loop that can run does run
SpecTee == Init /\ [][NextTee]_vars /\ WF_vars(NextTee)

\* GETs through the catch-all handler, one after the other or together, and
\* the memory tasks they create
NextHit ==
    \E r \in 1..MaxReq :
        \/ \E url_path \in UrlPaths, query \in Queries : ServeFromCache(r, "GET", url_path, query)
        \/ \E url_path \in UrlPaths, query \in Queries : BeginGenerate(r, "GET", url_path, query)
        \/ \E chunk \in NextChunks(r) : ProducerChunk(r, chunk)
        \/ ProducerEnd(r)
        \/ ProducerFail(r)
        \/ HeaderReturned(r)
        \/ DrainMore(r)
        \/ \E write \in WriteOutcomes : RunTask(r, write)
        \/ \E reply \in SummarizerReplies, write \in WriteOutcomes : SummarizerReturns(r, reply, write)

SpecHit == Init /\ [][NextHit]_vars

\* the same requests and memory tasks on the one thread of the event loop,
\* which runs nothing once it is blocked on memory_lock
NextLock == LoopRuns /\ NextHit

SpecLock == Init /\ [][NextLock]_vars

\* GETs of one page whose generation does not fail, the memory tasks they
\* create, and hard resets
NextReset ==
    \E r \in 1..MaxGets :
        \/ HardReset(r)
        \/ ServeFromCache(r, "GET", <<"a">>, <<>>)
        \/ BeginGenerate(r, "GET", <<"a">>, <<>>)
        \/ \E chunk \in NextChunks(r) : ProducerChunk(r, chunk)
        \/ ProducerEnd(r)
        \/ HeaderReturned(r)
        \/ DrainMore(r)
        \/ RunTask(r, "ok")
        \/ SummarizerReturns(r, <<"s">>, "ok")

SpecReset == Init /\ [][NextReset]_vars

\* edits of a page and GETs of it
NextEdit ==
    \E r \in 1..MaxReq :
        \/ \E module \in EditModules : EditBegin(r, <<"a">>, module)
        \/ \E response_body \in EditedTexts : EditReturns(r, response_body)
        \/ EditFails(r)
        \/ ServeFromCache(r, "GET", <<"a">>, <<>>)
        \/ BeginGenerate(r, "GET", <<"a">>, <<>>)
        \/ \E chunk \in NextChunks(r) : ProducerChunk(r, chunk)
        \/ ProducerEnd(r)
        \/ ProducerFail(r)
        \/ HeaderReturned(r)
        \/ DrainMore(r)

SpecEdit == Init /\ [][NextEdit]_vars

\* the related-page query over every small store
NextRelated == \E items \in Stores, url_path \in QueryPaths, limit \in Limits : CallRelated(items, url_path, limit)

SpecRelated == Init /\ [][NextRelated]_vars

\* the related-page query over stores in every order of insertion, before
\* and after one of their paths is remembered again
NextOrder ==
    \/ \E items \in OrderStores, url_path \in OrderQueries : CallRelated(items, url_path, DefaultLimit)
    \/ \E items \in OrderStores, i \in 1..MaxStore, links \in StoredLinks, url_path \in OrderQueries :
          RememberThenRelated(items, i, links, url_path, DefaultLimit)

SpecOrder == Init /\ [][NextOrder]_vars

\* the link extraction of memory.py
NextLinks == \E content_type \in LinkContentTypes, body \in LinkBodies : CallPageLinks(content_type, body)

SpecLinks == Init /\ [][NextLinks]_vars

\* the catch-all handler, or else one call of a pure function
NextNever404 ==
    \/ call.fn = "-" /\ Next
    \/ (\A r \in Reqs : hpc[r] = "idle") /\ NextParse

SpecNever404 == Init /\ [][NextNever404]_vars

(***************************************************************************)
(* Claims.                                                                 *)
(***************************************************************************)
\* the body fragments a request has been given or will find in its queue
Fragments(r) == parts[r] \o SelectSeq(queue[r], LAMBDA x : x # None)

\* the text has its first newline at position i
FirstNewlineAt(text, i) == i \in 1..Len(text) /\ text[i] = "\n" /\ \A j \in 1..(i - 1) : text[j] # "\n"

HasNewline(text) == \E i \in 1..Len(text) : text[i] = "\n"

\* C1: stream_page_for_path hands back status and mime before a fragment
\* can be taken from the body iterator: whenever the caller holds the
\* iterator, the mime it was given is resolved, status and mime are the
\* ones the producer parsed, and no fragment is taken before that.
C1_HeaderBeforeBody ==
    \A r \in Reqs :
        /\ parts[r] # <<>> => hpc[r] \in {"drain", "done"}
        /\ hpc[r] \in {"drain", "done"} =>
            /\ ret[r].mime # None
            /\ ret[r] = StreamResult(r)
            /\ resp[r].status_code = ret[r].status
            /\ resp[r].media_type = ret[r].mime

\* a fragment was taken from a stream whose header and body came together
C1_Witness == parts[1] # <<>> /\ stream[1].n = 1 /\ ret[1].mime # None

\* C2: once the fragments yielded so far contain a newline, the line given
\* to the parser is the text before the first newline, and the body
\* fragments emitted, concatenated in order, are the text after it.
C2_HeaderBodySplit ==
    \A r \in Reqs :
        HasNewline(stream[r].text) =>
            \E i \in 1..Len(stream[r].text) :
                /\ FirstNewlineAt(stream[r].text, i)
                /\ parsed_line[r] = SubSeq(stream[r].text, 1, i - 1)
                /\ Join(Fragments(r)) = SubSeq(stream[r].text, i + 1, Len(stream[r].text))

\* three fragments "a", "b", "\nb" (or another cut of the same text) were
\* handed through: header "ab", body "b"
C2_Witness ==
    /\ Done(1)
    /\ stream[1].n = 3
    /\ parsed_line[1] = <<"a", "b">>
    /\ parts[1] = << <<"b">> >>

\* C3: a stream that ends normally without a newline resolves to
\* (200, "text/html; charset=utf-8") and its whole text is the body.
C3_HeaderlessStream ==
    \A r \in Reqs :
        (ppc[r] = "done" /\ ~HasNewline(stream[r].text)) =>
            /\ status_holder[r] = 200
            /\ mime_holder[r] = TEXT_HTML \o CHARSET_UTF8
            /\ Join(Fragments(r)) = stream[r].text
            /\ Done(r) => (resp[r] = [status_code |-> 200, media_type |-> TEXT_HTML \o CHARSET_UTF8, body |-> stream[r].text])

\* the stream "ab" without a newline was handed through completely
C3_Witness ==
    /\ Done(1)
    /\ ppc[1] = "done"
    /\ stream[1].text = <<"a", "b">>
    /\ resp[1].body = <<"a", "b">>

\* the tokens of a header line, as str.split() cuts them
HeaderTokens(line) == Split(Strip(line))

\* every character of the token is one of 0..9
IsAsciiNumber(tok) == tok # <<>> /\ \A i \in 1..Len(tok) : IsAsciiDigit(tok[i])

\* C6: for a header line "<status> <mime>" (first token a decimal number s,
\* at least one more token) parse_status_and_mime returns 418 when s = 404,
\* s itself when 100 <= s <= 599 otherwise, and 200 when s is outside
\* [100,599]; the mime is the normalization of the remaining tokens.
C6_StatusMimeLine ==
    call.fn = "parse_status_and_mime" =>
        LET toks == HeaderTokens(call.arg)
        IN  (Len(toks) >= 2 /\ IsAsciiNumber(toks[1])) =>
                /\ out.status = (IF IntOf(toks[1]) = 404 THEN 418
                                 ELSE IF IntOf(toks[1]) >= 100 /\ IntOf(toks[1]) <= 599 THEN IntOf(toks[1])
                                 ELSE 200)
                /\ out.mime = _normalize_mime(JoinSpace(Tail(toks)))

\* the line "0404  text/plain" was parsed to (418, "text/plain; charset=utf-8")
C6_Witness ==
    /\ call.fn = "parse_status_and_mime"
    /\ Len(HeaderTokens(call.arg)) = 2
    /\ HeaderTokens(call.arg)[1] = <<"0", "4", "0", "4">>
    /\ out.status = 418
    /\ out.mime = <<"t","e","x","t","/","p","l","a","i","n">> \o CHARSET_UTF8

\* the mime given to _normalize_mime, without its surrounding whitespace
GivenMime == Strip(call.arg)

HasCharset(mime) == Contains(Lower(mime), CHARSET)

\* C7 as the specification states it: a text/* mime lacking "charset" gains
\* "; charset=utf-8", and every mime that contains "charset" is returned
\* unchanged.
C7_AsStated ==
    call.fn = "_normalize_mime" =>
        /\ (StartsWith(GivenMime, TEXT_SLASH) /\ ~HasCharset(GivenMime)) => out = GivenMime \o CHARSET_UTF8
        /\ HasCharset(GivenMime) => out = GivenMime

\* C7: _normalize_mime appends "; charset=utf-8" to a mime that starts
\* with "text/" and lacks "charset" (in any case); a mime that contains "/"
\* and "charset" is returned unchanged apart from its surrounding
\* whitespace; a mime without "/" is replaced by "text/html; charset=utf-8"
\* whether or not it contains "charset".
C7_CharsetRule ==
    call.fn = "_normalize_mime" =>
        /\ (StartsWith(GivenMime, TEXT_SLASH) /\ ~HasCharset(GivenMime)) => out = GivenMime \o CHARSET_UTF8
        /\ (Contains(GivenMime, <<"/">>) /\ HasCharset(GivenMime)) => out = GivenMime
        /\ ~Contains(GivenMime, <<"/">>) => out = TEXT_HTML \o CHARSET_UTF8

\* "charset=utf-8", which has no "/", came back as "text/html; charset=utf-8"
C7_Witness ==
    /\ call.fn = "_normalize_mime"
    /\ call.arg = SubSeq(CHARSET_UTF8, 3, Len(CHARSET_UTF8))
    /\ out = TEXT_HTML \o CHARSET_UTF8

\* the handler of request r generated its response and sent it
Generated(r) == req[r].route = "catchall" /\ Done(r) /\ hist[r].branch \in {"buffer_json_xml", "stream_other"}

\* the handler of request r is suspended and nothing will resume it
Stuck(r) == InFlight(r) /\ ppc[r] \in {"done", "failed"} /\ ~ENABLED (HeaderReturned(r) \/ DrainMore(r))

\* C4: when the generator failed before it produced any output, the
\* catch-all handler responds with the fallback error document and status
\* 500 (it is not left suspended without a response), having called the
\* generator once.
C4_FallbackOnFailure ==
    \A r \in Reqs :
        (req[r].route = "catchall" /\ ppc[r] = "failed" /\ stream[r].n = 0) =>
            /\ gen_calls[r] = 1
            /\ ~Stuck(r)
            /\ Done(r) => (resp[r].status_code = 500 /\ resp[r].body = ERROR_HTML)

\* a valid status: in [100,599] and not 404
NeverNotFound(status) == status >= 100 /\ status <= 599 /\ status # 404

\* C5: no response of the catch-all handler carries status 404 or a status
\* outside [100,599], and for every header line the status returned by
\* parse_status_and_mime is in [100,599] and is not 404.
C5_Never404 ==
    /\ \A r \in Reqs : (req[r].route = "catchall" /\ Done(r)) => NeverNotFound(resp[r].status_code)
    /\ \A r \in Reqs : ret[r] # NoResult => NeverNotFound(ret[r].status)
    /\ call.fn = "parse_status_and_mime" => NeverNotFound(out.status)

\* the generator answered "404 text/html" and the response went out as 418
C5_Witness ==
    \E r \in Reqs :
        /\ Generated(r)
        /\ parsed_line[r] = <<"4","0","4"," ","t","e","x","t","/","h","t","m","l">>
        /\ resp[r].status_code = 418

\* the stream of request r was "200 application/json", a newline, and a body
IsJsonScenario(r) == Generated(r) /\ ppc[r] = "done" /\ StartsWith(stream[r].text, H_JSON)

\* the text that followed the header line of the scenario
ScenarioBody(r) == SubSeq(stream[r].text, Len(H_JSON) + 1, Len(stream[r].text))

\* C8 as the specification states it: header line "200 application/json"
\* and body B yield status 200, mime "application/json; charset=utf-8" and
\* body exactly B.
C8_AsStated ==
    \A r \in Reqs :
        IsJsonScenario(r) =>
            resp[r] = [status_code |-> 200, media_type |-> APPLICATION_JSON \o CHARSET_UTF8, body |-> ScenarioBody(r)]

\* C8: header line "200 application/json" and body B yield status 200,
\* mime "application/json" (no charset is added to a mime outside text/*)
\* and a body that is exactly B, with no trimming.
C8_JsonScenario ==
    \A r \in Reqs :
        IsJsonScenario(r) =>
            resp[r] = [status_code |-> 200, media_type |-> APPLICATION_JSON, body |-> ScenarioBody(r)]

\* the body ' {"a":1}' with its leading blank and final newline went out whole
C8_Witness ==
    \E r \in Reqs :
        /\ IsJsonScenario(r)
        /\ stream[r].text = H_JSON \o B_JSON
        /\ resp[r].body = B_JSON
        /\ resp[r].media_type = APPLICATION_JSON

\* h is a GET of the key of g that arrived after g had been answered
LaterGetOf(g, h) ==
    /\ req[g].route = "catchall" /\ req[g].method = "GET"
    /\ req[h].route = "catchall" /\ req[h].method = "GET"
    /\ CacheKey(h) = CacheKey(g)
    /\ Done(h)
    /\ g \in hist[h].before

\* C9 as the specification states it: after a GET completed with a
\* generated response, every later GET of the same path and query returns
\* the identical response and does not invoke the generator.
C9_AsStated ==
    \A g \in Reqs, h \in Reqs :
        (Generated(g) /\ LaterGetOf(g, h)) => (resp[h] = resp[g] /\ gen_calls[h] = 0)

\* C9: after a GET completed with a generated response while no other GET
\* of the same path and query was being generated, every later GET of that
\* path and query returns the same mime and the same body with status 200,
\* whatever status the generated response had, and does not invoke the
\* generator.
C9_RepeatedGet ==
    \A g \in Reqs, h \in Reqs :
        (Generated(g) /\ hist[g].quiet /\ LaterGetOf(g, h)) =>
            /\ resp[h].status_code = 200
            /\ resp[h].media_type = resp[g].media_type
            /\ resp[h].body = resp[g].body
            /\ gen_calls[h] = 0

\* a response generated with status 418 was served again with status 200
C9_Witness ==
    \E g \in Reqs, h \in Reqs :
        /\ Generated(g) /\ hist[g].quiet /\ LaterGetOf(g, h)
        /\ resp[g].status_code = 418
        /\ resp[h].status_code = 200
        /\ resp[h].body = resp[g].body
        /\ resp[h].body # <<>>
        /\ hist[h].branch = "cache_hit"

\* a step of the handler of a POST request
PostStep(r) == req'[r].route = "catchall" /\ req'[r].method = "POST" /\ hpc'[r] # hpc[r]

\* C10: a POST request is never answered from the cache and always invokes
\* the generator, even when its key is cached, and no step of its handler
\* changes the cache; only a GET writes it.
C10_PostBypassesCache ==
    [][ /\ \A r \in Reqs :
              PostStep(r) =>
                  /\ cache' = cache
                  /\ hist'[r].branch # "cache_hit"
                  /\ hpc'[r] = "done" => gen_calls'[r] = 1
        /\ cache' # cache => \E r \in Reqs : req[r].method = "GET" /\ hpc[r] # "done" /\ Generated(r)'
      ]_vars

\* a POST whose key was cached generated a response that differs from the
\* cached one, and the cached one stayed
C10_Witness ==
    \E r \in Reqs :
        /\ Generated(r)
        /\ req[r].method = "POST"
        /\ hist[r].cached
        /\ gen_calls[r] = 1
        /\ cache[CacheKey(r)].body # resp[r].body

\* the handler of GET request r responds with a generated response in this step
Completes(r) == req[r].route = "catchall" /\ req[r].method = "GET" /\ hpc[r] # "done" /\ Generated(r)'

\* GET request r has arrived, and no generation for its key had completed before
ArrivedBeforeAnyCompletion(r) ==
    /\ req[r].route = "catchall" /\ req[r].method = "GET"
    /\ \A g \in hist[r].before : ~(Generated(g) /\ req[g].method = "GET" /\ CacheKey(g) = CacheKey(r))

\* C11: every GET that arrives before any generation for its key has
\* completed invokes the generator itself (one invocation each, none is
\* answered from the cache), every GET that completes a generation writes
\* its own (mime, body) under the key, replacing what an earlier one wrote,
\* and nothing else changes the entry: the entry left is the one of the GET
\* that finished last.
C11_NoCoalescingLastWriterWins ==
    [][ /\ \A r \in Reqs : ArrivedBeforeAnyCompletion(r)' => (gen_calls'[r] = 1 /\ hist'[r].branch # "cache_hit")
        /\ \A r \in Reqs : Completes(r) =>
              (CacheKey(r) \in DOMAIN cache' /\ cache'[CacheKey(r)] = [content_type |-> resp'[r].media_type, body |-> resp'[r].body])
        /\ cache' # cache => \E r \in Reqs : Completes(r) /\ \A k \in DOMAIN cache : k # CacheKey(r) => cache'[k] = cache[k]
      ]_vars

\* three GETs of one key were all generated; the first to finish answered
\* with another body than the last, whose body the cache holds
C11_Witness ==
    /\ \A r \in 1..3 : Generated(r) /\ ArrivedBeforeAnyCompletion(r) /\ gen_calls[r] = 1 /\ hist[r].before = {}
    /\ \E r \in 1..3 : cache[CacheKey(1)].body # resp[r].body
    /\ \E r \in 1..3 : cache[CacheKey(1)].body = resp[r].body /\ ~hist[r].quiet

\* the body the generator of request r was producing, when it has produced all of it
CompleteBody(r) == IF HasNewline(stream[r].text) THEN AfterNewline(stream[r].text) ELSE stream[r].text

\* C12: a response whose mime is JSON or XML carries the complete body
\* the generator produced, which ended normally, or no body at all: never
\* a body cut short by a failure of the generator.
C12_StructuredNeverTruncated ==
    \A r \in Reqs :
        (Generated(r) /\ DoNotStream(resp[r].media_type)) =>
            \/ ppc[r] = "done" /\ resp[r].body = CompleteBody(r)
            \/ resp[r].body = <<>>

\* href="t" stands in the body at position i
HrefAt(html, t, i) ==
    /\ i >= 1 /\ i + Len(HREF_QUOTE) + Len(t) <= Len(html)
    /\ SubSeq(html, i, i + Len(HREF_QUOTE) + Len(t)) = HREF_QUOTE \o t \o <<"\"">>

\* an internal target: it starts with "/" and holds none of " # ?
InternalTarget(t) == t # <<>> /\ t[1] = "/" /\ \A k \in 1..Len(t) : t[k] \notin LinkStop

\* the internal targets of the href attributes of the body
HrefTargets(html) ==
    { t \in { SubSeq(html, i, j) : i \in 1..Len(html), j \in 1..Len(html) } :
        InternalTarget(t) /\ \E i \in 1..Len(html) : HrefAt(html, t, i) }

FirstHref(html, t) == CHOOSE i \in 1..Len(html) : HrefAt(html, t, i) /\ \A j \in 1..(i - 1) : ~HrefAt(html, t, j)

\* C20: for a text/html body the links are exactly the targets of the
\* href="/..." attributes that contain no '#', '?' or '"', each once, in
\* the order of their first occurrence; for every other content type the
\* link list is empty.
C20_LinkExtraction ==
    call.fn = "PageLinks" =>
        LET content_type == call.arg[1]
            html == call.arg[2]
        IN  IF StartsWith(Lower(content_type), TEXT_HTML)
            THEN /\ { out[k] : k \in 1..Len(out) } = HrefTargets(html)
                 /\ \A k \in 1..Len(out), l \in 1..Len(out) : k < l => FirstHref(html, out[k]) < FirstHref(html, out[l])
            ELSE out = <<>>

\* href="/about"-like and href="/about#top"-like attributes and a repeated
\* one: the body href="/a#t" href="/a" href="/a" gave ["/a"]
C20_Witness ==
    /\ call.fn = "PageLinks"
    /\ call.arg[1] = TEXT_HTML \o CHARSET_UTF8
    /\ call.arg[2] = HREF_QUOTE \o <<"/","a","#","t","\"">> \o HREF_QUOTE \o <<"/","a","\"">> \o HREF_QUOTE \o <<"/","a","\"">>
    /\ out = << <<"/","a">> >>

\* remember_page call c starts in this step
StartsCall(c) == mc[c].pc = "idle" /\ mc'[c].pc # "idle"

\* this step leaves the store, the file and the summarizer alone for call c
NothingRemembered(c) == page_memory' = page_memory /\ memory_file' = memory_file /\ mc'[c].sum_calls = 0 /\ mc'[c].pc = "done"

\* C13: a call whose content type, compared in lower case, starts with neither
\* "text/" nor "application/json" changes neither the store nor the file and
\* does not invoke the summarizer
C13_IneligibleIgnored ==
    [][\A c \in 1..MaxCalls :
          StartsCall(c) /\ ~StartsWith(Lower(mc'[c].content_type), TEXT_SLASH) /\ ~StartsWith(Lower(mc'[c].content_type), APPLICATION_JSON)
          => NothingRemembered(c)]_vars

\* an image/png call has ended after a record of its path was stored
C13_Witness ==
    /\ mc[2].pc = "done" /\ mc[2].content_type = IMAGE_PNG
    /\ mc[2].url_path \in DOMAIN page_memory
    /\ memory_file.state = "written"

\* C14: every stored record carries the hash of the body its summary was
\* produced from, and links that were extracted from that body
C14_RecordOfOneBody ==
    \A url_path \in DOMAIN page_memory :
        /\ page_memory[url_path].hash = sha256(page_memory[url_path].of_body)
        /\ page_memory[url_path].links \in { <<>>, _extract_internal_links_from_html(page_memory[url_path].of_body) }

\* a call stored its record for a path while an earlier call for the same
\* path with another body is still waiting for the summarizer
C14_Witness ==
    /\ mc[1].pc = "summarizing" /\ mc[2].pc = "done" /\ mc[2].outcome = "summarized"
    /\ mc[1].url_path = mc[2].url_path /\ mc[1].body # mc[2].body
    /\ mc[2].url_path \in DOMAIN page_memory
    /\ page_memory[mc[2].url_path].links # <<>>

\* remember_page was called with a text/html content type
IsHtmlCall(c) == mc[c].pc # "idle" /\ StartsWith(Lower(mc[c].content_type), TEXT_HTML)

\* C15 as stated: two calls for the same path with the same text/html body
\* invoke the summarizer at most once between them
C15_AsStated ==
    \A c \in 1..MaxCalls, d \in 1..MaxCalls :
        c < d /\ IsHtmlCall(c) /\ IsHtmlCall(d) /\ mc[c].url_path = mc[d].url_path /\ mc[c].body = mc[d].body
        => mc[c].sum_calls + mc[d].sum_calls <= 1

\* C15 amended: a text/html call that starts when the store holds, for its
\* path, a record made from the same body with a non-empty summary does not
\* invoke the summarizer and stores that summary again
C15_ReusesStoredSummary ==
    [][\A c \in 1..MaxCalls :
          /\ StartsCall(c)
          /\ StartsWith(Lower(mc'[c].content_type), TEXT_HTML)
          /\ mc'[c].url_path \in DOMAIN page_memory
          /\ page_memory[mc'[c].url_path].of_body = mc'[c].body
          /\ page_memory[mc'[c].url_path].summary # <<>>
          => /\ mc'[c].sum_calls = 0
             /\ mc'[c].pc = "done"
             /\ page_memory'[mc'[c].url_path].summary = page_memory[mc'[c].url_path].summary]_vars

\* the second of two text/html calls for one path and body has reused the
\* summary the first got from the summarizer
C15_Witness ==
    /\ IsHtmlCall(1) /\ IsHtmlCall(2)
    /\ mc[1].url_path = mc[2].url_path /\ mc[1].body = mc[2].body
    /\ mc[1].outcome = "summarized" /\ mc[2].outcome = "reused"
    /\ mc[1].sum_calls = 1 /\ mc[2].sum_calls = 0
    /\ page_memory[mc[2].url_path].summary = <<"s">>

\* the summarizer raises in this step for call c
SummarizerFails(c) == mc[c].pc = "summarizing" /\ mc'[c].pc # "summarizing" /\ mc'[c].outcome = "fallback"

\* the first n characters of a string
FirstChars(s, n) == SubSeq(s, 1, IF Len(s) > n THEN n ELSE Len(s))

\* C16 as stated: when the summarizer fails the call ends normally and its
\* record is stored with the first 800 characters of the body plus an ellipsis
\* marker as the summary
C16_AsStated ==
    [][\A c \in 1..MaxCalls :
          SummarizerFails(c)
          => /\ mc'[c].pc = "done"
             /\ mc[c].url_path \in DOMAIN page_memory'
             /\ page_memory'[mc[c].url_path].summary = FirstChars(mc[c].body, SNIPPET_CHARS) \o ELLIPSIS]_vars

\* C16 amended: when the summarizer fails the call ends normally and its
\* record is stored with, as the summary, the body stripped of surrounding
\* whitespace when that has at most 800 characters, and else its first 800
\* characters followed by " ..."
C16_FallbackSnippet ==
    [][\A c \in 1..MaxCalls :
          SummarizerFails(c)
          => /\ mc'[c].pc = "done"
             /\ mc[c].url_path \in DOMAIN page_memory'
             /\ page_memory'[mc[c].url_path].hash = sha256(mc[c].body)
             /\ page_memory'[mc[c].url_path].summary =
                   IF Len(Strip(mc[c].body)) > SNIPPET_CHARS
                   THEN FirstChars(Strip(mc[c].body), SNIPPET_CHARS) \o ELLIPSIS
                   ELSE Strip(mc[c].body)]_vars

\* the summarizer failed for a long body and for a short one, and both
\* records are stored, the long with the marker and the short without
C16_Witness ==
    /\ mc[1].outcome = "fallback" /\ mc[2].outcome = "fallback"
    /\ mc[1].pc = "done" /\ mc[2].pc = "done"
    /\ mc[1].body = LongBody /\ Len(mc[2].body) <= SNIPPET_CHARS
    /\ mc[1].url_path # mc[2].url_path
    /\ Len(page_memory[mc[1].url_path].summary) = SNIPPET_CHARS + Len(ELLIPSIS)
    /\ page_memory[mc[2].url_path].summary = Strip(mc[2].body)

\* call c ends in this step with a failed write of the file
WriteFails(c) == mc[c].pc # "done" /\ mc'[c].pc # mc[c].pc /\ mc'[c].write = "failed"

\* C17: when the write of the file fails the call still ends normally, the
\* store holds the new record of the call's path, and no record of another
\* path is lost
C17_StoreUpdatedDespiteWriteFailure ==
    [][\A c \in 1..MaxCalls :
          WriteFails(c)
          => /\ mc'[c].pc = "done"
             /\ DOMAIN page_memory' = DOMAIN page_memory \cup {mc'[c].url_path}
             /\ page_memory'[mc'[c].url_path].hash = sha256(mc'[c].body)
             /\ page_memory'[mc'[c].url_path].links = PageLinks(mc'[c].content_type, mc'[c].body)
             /\ \A p \in DOMAIN page_memory : p # mc'[c].url_path => page_memory'[p] = page_memory[p]
             /\ memory_file'.state # "written" \/ memory_file' = memory_file]_vars

\* a call that replaced the record of its path has ended although its write
\* failed, and the file still holds the store as an earlier call wrote it
C17_Witness ==
    /\ mc[1].pc = "done" /\ mc[1].write = "ok" /\ mc[1].outcome = "summarized"
    /\ mc[2].pc = "done" /\ mc[2].write = "failed" /\ mc[2].outcome = "summarized"
    /\ mc[1].url_path = mc[2].url_path /\ mc[1].body # mc[2].body
    /\ page_memory[mc[2].url_path].hash = sha256(mc[2].body)
    /\ memory_file.state = "written"
    /\ memory_file.content # page_memory

\* C18: the handler has responded in the very step that creates the memory
\* task, before the task has run; and whatever the task and the summarizer do
\* afterwards, the request stays answered with the same response
C18_ResponseNeverWaitsForMemory ==
    [][\A r \in Reqs :
          /\ task[r] = <<>> /\ task'[r] # <<>> => hpc'[r] = "done" /\ mc'[r].pc = "idle" /\ resp'[r].body = task'[r][2]
          /\ mc'[r] # mc[r] => hpc[r] = "done" /\ hpc'[r] = "done" /\ resp'[r] = resp[r]]_vars

\* the request is answered with its body while its memory task still waits
\* for the summarizer
C18_Witness ==
    /\ hpc[1] = "done" /\ resp[1].body # <<>> /\ resp[1].status_code = 201
    /\ mc[1].pc = "summarizing" /\ mc[1].body = resp[1].body

\* C19: when the client is gone while the body of request 1 is streamed, a
\* record for the path of the request is eventually stored all the same
C19_MemoryUpdateSurvivesDisconnect ==
    [](hpc[1] = "streaming" /\ client[1] = "disconnected"
       => <>(normalized_path(req[1].url_path) \in DOMAIN page_memory))

\* get_related_memory has been called
RelatedCalled == call.fn = "get_related_memory"

\* the place of a path in the result, 0 when it is not there
PlaceInResult(path) == IF \E k \in 1..Len(out) : out[k] = path THEN CHOOSE k \in 1..Len(out) : out[k] = path ELSE 0

\* the number of tokens of the query path that a stored path has too
Shared(url_path, path) == Cardinality(QueryTokens(url_path) \cap OtherTokens(path))

\* C21: of two stored pages other than the query path, the one that shares
\* more tokens with the query path stands before the one that shares fewer
\* whenever the latter is in the result
C21_MoreSharedTokensFirst ==
    RelatedCalled =>
        LET items == call.arg[1]
            url_path == call.arg[2]
        IN  \A i \in 1..Len(items), j \in 1..Len(items) :
                /\ items[i].path # url_path
                /\ Shared(url_path, items[i].path) > Shared(url_path, items[j].path)
                /\ PlaceInResult(items[j].path) > 0
                => /\ PlaceInResult(items[i].path) > 0
                   /\ PlaceInResult(items[i].path) < PlaceInResult(items[j].path)

\* related("/cars/hybrid") over a store that got "/fuel-economy" before
\* "/electric-cars" lists "/electric-cars" first
C21_Witness ==
    /\ RelatedCalled
    /\ call.arg[2] = CARS_HYBRID
    /\ Len(call.arg[1]) = 2 /\ call.arg[1][1].path = FUEL_ECONOMY /\ call.arg[1][2].path = ELECTRIC_CARS
    /\ out = <<ELECTRIC_CARS, FUEL_ECONOMY>>

\* the score as the claim gives it, doubled: the shared tokens and the link
\* entries of all records, the query path's own and that of "/" included,
\* that equal the query path
ClaimedScore(items, url_path, path) == 2 * Shared(url_path, path) + Backlinks(items, url_path)

\* the stored paths that may be in a result
Others(items, url_path) == { items[i].path : i \in 1..Len(items) } \ { <<"/">>, url_path }

\* C22: the result holds only paths whose claimed score is positive, holds
\* all of them when the limit allows, and in non-increasing claimed score; so
\* when some record links to the query path, every other stored path except
\* "/" is listed, up to the limit
C22_ScoreShape ==
    RelatedCalled =>
        LET items == call.arg[1]
            url_path == call.arg[2]
            limit == call.arg[3]
            positive == { path \in Others(items, url_path) : ClaimedScore(items, url_path, path) > 0 }
        IN  /\ { out[k] : k \in 1..Len(out) } \subseteq positive
            /\ Len(out) = (IF Cardinality(positive) > limit THEN limit ELSE Cardinality(positive))
            /\ \A k \in 1..Len(out), l \in 1..Len(out) :
                  k < l => ClaimedScore(items, url_path, out[k]) >= ClaimedScore(items, url_path, out[l])
            /\ Backlinks(items, url_path) > 0 => positive = Others(items, url_path)

\* the query path is linked only from its own record, and a stored page with
\* no token in common and no link to it is in the result
C22_Witness ==
    /\ RelatedCalled
    /\ call.arg[2] = CARS_HYBRID
    /\ Len(call.arg[1]) = 3
    /\ call.arg[1][1].path = CARS_HYBRID /\ call.arg[1][1].links # <<>>
    /\ call.arg[1][2].path = <<"/">> /\ call.arg[1][2].links = <<>>
    /\ call.arg[1][3].path = FUEL_ECONOMY /\ call.arg[1][3].links = <<>>
    /\ out = <<FUEL_ECONOMY>>

\* C23: the result has at most limit entries, all of them different stored
\* paths, none of them "/" or the query path, each with a positive score, in
\* non-increasing score; for an empty store it is empty
C23_ResultShape ==
    RelatedCalled =>
        LET items == call.arg[1]
            url_path == call.arg[2]
            limit == call.arg[3]
        IN  /\ Len(out) <= limit
            /\ \A k \in 1..Len(out) :
                  /\ out[k] # <<"/">>
                  /\ out[k] # url_path
                  /\ \E i \in 1..Len(items) : items[i].path = out[k]
                  /\ ClaimedScore(items, url_path, out[k]) > 0
                  /\ \A l \in 1..Len(out) : l # k => out[l] # out[k]
                  /\ k < Len(out) => ClaimedScore(items, url_path, out[k]) >= ClaimedScore(items, url_path, out[k + 1])
            /\ items = <<>> => out = <<>>

\* a query with limit 1 over a store that holds "/" and two pages with a
\* positive score returns one page
C23_Witness ==
    /\ RelatedCalled
    /\ call.arg[3] = 1
    /\ Len(call.arg[1]) = 3
    /\ \E i \in 1..3 : call.arg[1][i].path = <<"/">>
    /\ Cardinality(Candidates(call.arg[1], call.arg[2])) = 2
    /\ Len(out) = 1

\* request r arrives in this step as a GET whose key is in the cache
ArrivesAtCachedKey(r) ==
    /\ hpc[r] = "idle" /\ hpc'[r] # "idle"
    /\ req'[r].route = "catchall" /\ req'[r].method = "GET"
    /\ cache_key(req'[r].url_path, req'[r].query) \in DOMAIN cache

\* C24: a GET whose key is in the cache is answered in that step with the
\* cached media type and body; it looks up no related pages, starts no
\* generator, creates no memory task and leaves cache and page memory as
\* they are
C24_CacheHitChangesNothing ==
    [][\A r \in Reqs :
          ArrivesAtCachedKey(r)
          => /\ hpc'[r] = "done"
             /\ resp'[r].media_type = cache[cache_key(req'[r].url_path, req'[r].query)].content_type
             /\ resp'[r].body = cache[cache_key(req'[r].url_path, req'[r].query)].body
             /\ hist'[r].related = None
             /\ gen_calls' = gen_calls /\ ppc' = ppc
             /\ task' = task
             /\ cache' = cache
             /\ page_memory' = page_memory /\ memory_file' = memory_file /\ mc' = mc]_vars

\* the second GET was served from the cache after the page memory had
\* stored the first one's body
C24_Witness ==
    /\ hist[2].branch = "cache_hit" /\ hpc[2] = "done"
    /\ resp[2].body = resp[1].body /\ resp[2].body # <<>>
    /\ mc[1].pc = "done" /\ page_memory # <<>>
    /\ gen_calls[2] = 0 /\ task[2] = <<>>

\* the edit of request r is answered with the redirect in this step
EditCompletes(r) == hpc[r] = "edit_generating" /\ hpc'[r] = "done" /\ resp'[r].status_code = 302

\* request e is a completed edit and nothing but request r has happened since
LastEditBefore(e, r) ==
    /\ e # r /\ req[e].route \in EditModules /\ hpc[e] = "done" /\ resp[e].status_code = 302
    /\ \A o \in Reqs \ {e, r} : hpc[o] = "idle" \/ o \in hist[e].before

\* C25: when an edit completes, the cache holds the regenerated media type
\* and body under "<path>?" and a memory task for the normalized path is
\* created; a GET of the path with an empty query that follows is answered
\* with the regenerated body
C25_EditedPageIsServed ==
    [][\A r \in Reqs :
          /\ EditCompletes(r)
             => /\ (req[r].url_path \o <<"?">>) \in DOMAIN cache'
                /\ cache'[req[r].url_path \o <<"?">>] = [content_type |-> ret'[r].mime, body |-> parts'[r][1]]
                /\ task'[r] = <<normalized_path(req[r].url_path), parts'[r][1], ret'[r].mime>>
          /\ \A e \in Reqs :
                /\ LastEditBefore(e, r)
                /\ hpc[r] = "idle" /\ hpc'[r] # "idle"
                /\ req'[r].route = "catchall" /\ req'[r].method = "GET"
                /\ req'[r].url_path = req[e].url_path /\ req'[r].query = <<>>
                => hpc'[r] = "done" /\ resp'[r].body = parts[e][1] /\ resp'[r].media_type = ret[e].mime]_vars

\* request e is a hard reset that has returned, no request is in flight, no
\* request has arrived since, and no memory task is waiting or running
QuietSinceReset(e) ==
    /\ req[e].route = "hard_reset" /\ hpc[e] = "done"
    /\ \A o \in Reqs \ {e} : hpc[o] = "idle" \/ (hpc[o] = "done" /\ o \in hist[e].before)
    /\ \A o \in Reqs : task[o] # <<>> => mc[o].pc = "done"

\* C26: when a hard reset returns the page memory is empty, and the GET that
\* comes next, with nothing in flight, is not served from the cache: it
\* invokes the generator
C26_HardResetForgetsEverything ==
    [][\A r \in Reqs :
          /\ (hpc[r] = "idle" /\ hpc'[r] = "done" /\ req'[r].route = "hard_reset") => page_memory' = <<>>
          /\ \A e \in Reqs :
                /\ QuietSinceReset(e)
                /\ hpc[r] = "idle" /\ hpc'[r] # "idle" /\ req'[r].route = "catchall" /\ req'[r].method = "GET"
                => /\ page_memory = <<>>
                   /\ hist'[r].branch # "cache_hit"
                   /\ gen_calls'[r] = 1]_vars

\* the generator of request r failed after the header was resolved, and the
\* handler has answered on the path that is not JSON or XML
FailedMidBody(r) == Generated(r) /\ ppc[r] = "failed" /\ hist[r].branch = "stream_other"

BranchChosen == call.fn = "handle_request.branch"

\* C28: every resolved mime that contains "json" or "xml" takes the
\* buffer-fully path, and every other mime takes the streaming path
C28_JsonOrXmlIsBuffered ==
    BranchChosen
    => (out.branch = "buffer_json_xml" <=> (Contains(out.mime, JSON) \/ Contains(out.mime, XML)))

\* the state of the demuxer of request r: 0 AWAITING_HEADER, 1 STREAMING_BODY,
\* 2 DONE
DemuxState(r) ==
    IF ppc[r] \in {"done", "failed"} THEN 2
    ELSE IF mime_holder[r] = None THEN 0
    ELSE 1

\* the fragment that the step appends to the stream of r
Arriving(r) == SubSeq(stream'[r].text, Len(stream[r].text) + 1, Len(stream'[r].text))

\* C29: the demuxer only moves forward; status and mime are assigned in one
\* step, from one parse of the text before the first newline, never change
\* afterwards, and are assigned on every stream that ends; a fragment that
\* arrives after that step is handed on whole, newlines included
C29_DemuxerOnlyMovesForward ==
    [][\A r \in Reqs :
          /\ DemuxState(r)' >= DemuxState(r)
          /\ ppc'[r] = "done" => mime_holder'[r] # None
          /\ mime_holder[r] # None
             => /\ mime_holder'[r] = mime_holder[r]
                /\ status_holder'[r] = status_holder[r]
                /\ parsed_line'[r] = parsed_line[r]
                /\ stream'[r].n = stream[r].n + 1 => queue'[r] = Append(queue[r], Arriving(r))
          /\ mime_holder[r] = None /\ mime_holder'[r] # None
             => /\ parsed_line'[r] = (IF HasNewline(stream'[r].text) THEN BeforeNewline(stream'[r].text) ELSE <<>>)
                /\ status_holder'[r] = parse_status_and_mime(parsed_line'[r]).status
                /\ mime_holder'[r] = parse_status_and_mime(parsed_line'[r]).mime]_vars

\* the header "a" was parsed, and a later fragment that ends with a newline
\* is in the queue as a part of the body
C29_Witness ==
    /\ stream[1].n = 3 /\ stream[1].text = <<"a", "\n", "b", "\n">>
    /\ parsed_line[1] = <<"a">> /\ mime_holder[1] # None
    /\ queue[1] # <<>> /\ queue[1][Len(queue[1])] # None
    /\ Contains(queue[1][Len(queue[1])], <<"\n">>)

\* the line is empty or only whitespace
IsBlankLine(line) == Strip(line) = <<>>

\* the line has one token, which is numeric
IsLoneNumber(line) ==
    /\ ~IsBlankLine(line)
    /\ Len(Split(Strip(line))) = 1
    /\ IsDigit(Split(Strip(line))[1])

\* C30: a header line whose only token is numeric, or that is empty or only
\* whitespace, gives status 200 and mime "text/html; charset=utf-8"
C30_LoneNumberIsNotAStatus ==
    (call.fn = "parse_status_and_mime" /\ (IsBlankLine(call.arg) \/ IsLoneNumber(call.arg)))
    => out = [status |-> 200, mime |-> TEXT_HTML \o CHARSET_UTF8]

\* the line "500" was parsed, and the status is 200
C30_Witness ==
    /\ call.fn = "parse_status_and_mime" /\ call.arg = <<"5", "0", "0">>
    /\ IsLoneNumber(call.arg)
    /\ out.status = 200 /\ out.mime = TEXT_HTML \o CHARSET_UTF8

\* the key has an entry and no GET for it is being generated
Settled(k) ==
    /\ k \in DOMAIN cache
    /\ \A r \in Reqs : ~(InFlight(r) /\ req[r].route = "catchall" /\ req[r].method = "GET" /\ CacheKey(r) = k)

\* C31: once a key has an entry in the response cache and no generation for
\* the key is in flight, no step of a GET or a POST to the catch-all handler
\* changes the entry, and no generation for the key starts
C31_SettledEntryIsReadOnly ==
    [][\A k \in DOMAIN cache :
          Settled(k) => (k \in DOMAIN cache' /\ cache'[k] = cache[k] /\ Settled(k)')]_vars

\* the entry of a key was written by the first request, and a later POST to
\* the same key was answered with another body, which the entry does not hold
C31_Witness ==
    /\ Generated(1) /\ req[1].method = "GET" /\ Generated(2) /\ req[2].method = "POST"
    /\ CacheKey(2) = CacheKey(1) /\ 1 \in hist[2].before
    /\ Settled(CacheKey(1))
    /\ cache[CacheKey(1)].body = resp[1].body
    /\ resp[2].body # resp[1].body

\* call c puts its record into the map in this step
StoresRecord(c) == mc[c].pc # "done" /\ mc'[c].pc = "done" /\ mc'[c].write \in {"ok", "failed"}

\* C32: the map and the file change only in a step in which a call stores
\* its record, and when the write of that step succeeds the file holds the
\* whole map as it is after the step; so whenever the most recent write
\* succeeded, the file equals the map
C32_FileEqualsMapAfterWrite ==
    [][/\ (page_memory' # page_memory \/ memory_file' # memory_file) => \E c \in 1..MaxCalls : StoresRecord(c)
       /\ \A c \in 1..MaxCalls :
             StoresRecord(c) /\ mc'[c].write = "ok"
             => memory_file' = [state |-> "written", content |-> page_memory']]_vars

\* the write of the first call failed, the write of the second call on
\* another path succeeded, and the file holds both records
C32_Witness ==
    /\ mc[1].pc = "done" /\ mc[1].write = "failed"
    /\ mc[2].pc = "done" /\ mc[2].write = "ok"
    /\ mc[1].url_path # mc[2].url_path
    /\ DOMAIN page_memory = {mc[1].url_path, mc[2].url_path}
    /\ memory_file = [state |-> "written", content |-> page_memory]

\* C33: a call that stores replaces the record of its path by a new object
\* made of its own summary, links and hash, and leaves the record of every
\* other path as it is; an object that was in the store, which a related-page
\* query may have handed out, has the same content wherever it is found later
C33_RecordReplacedWholesale ==
    [][/\ \A c \in 1..MaxCalls :
             StoresRecord(c)
             => /\ DOMAIN page_memory' = DOMAIN page_memory \cup {mc'[c].url_path}
                /\ page_memory'[mc'[c].url_path].obj = c
                /\ page_memory'[mc'[c].url_path].hash = sha256(mc'[c].body)
                /\ page_memory'[mc'[c].url_path].links = PageLinks(mc'[c].content_type, mc'[c].body)
                /\ \A p \in DOMAIN page_memory \ {mc'[c].url_path} : page_memory'[p] = page_memory[p]
       /\ \A p \in DOMAIN page_memory, q \in DOMAIN page_memory' :
             page_memory[p].obj = page_memory'[q].obj => page_memory[p] = page_memory'[q]]_vars

\* both calls stored a record of the same path, with different bodies, and
\* the store holds the object of the second call
C33_Witness ==
    /\ mc[1].pc = "done" /\ mc[1].write = "ok" /\ mc[2].pc = "done" /\ mc[2].write = "ok"
    /\ mc[1].url_path = mc[2].url_path /\ mc[1].body # mc[2].body
    /\ page_memory[mc[2].url_path].obj = 2
    /\ page_memory[mc[2].url_path].hash = sha256(mc[2].body)
    /\ PageLinks(mc[1].content_type, mc[1].body) # <<>>
    /\ page_memory[mc[2].url_path].links = <<>>

\* C34: memory_lock is free whenever a task is suspended, so no task is ever
\* blocked on it: the thread of the event loop is never stuck in acquire()
C34_LockNeverHeldAcrossAwait ==
    /\ memory_lock.holder = 0
    /\ ~memory_lock.blocked

\* two remember_page calls await the summarizer at the same time: the second
\* took the lock while the first was suspended, and both released it before
\* their await
C34_Witness ==
    /\ mc[1].pc = "summarizing" /\ mc[2].pc = "summarizing"
    /\ memory_lock = LockFree

\* s is the beginning of t
IsPrefix(s, t) == Len(s) <= Len(t) /\ SubSeq(t, 1, Len(s)) = s

\* the end markers in q
EndMarkers(q) == { i \in DOMAIN q : q[i] = None }

\* the body fragments in q, in order
BodyFragments(q) == SelectSeq(q, LAMBDA x : x # None)

\* the producer of request r has ended, normally or by raising
SourceEnded(r) == ppc[r] \in {"done", "failed"}

\* the queue of request r holds no end marker while the source runs, and
\* from its end on exactly one, behind every fragment, until the iteration
\* has taken it; the producer can always take its next step
MarkerInvariant(r) ==
    /\ ppc[r] = "running" => EndMarkers(queue[r]) = {} /\ ENABLED ProducerEnd(r) /\ ENABLED ProducerFail(r)
    /\ SourceEnded(r) /\ hpc[r] # "done" => EndMarkers(queue[r]) = {Len(queue[r])} /\ queue[r] # <<>>
    /\ SourceEnded(r) /\ hpc[r] = "done" => queue[r] = <<>>

\* a step takes fragments from the head of the queue into parts or puts
\* items behind its end; the iteration ends with every fragment delivered
DeliveredInOrder(r) ==
    /\ IsPrefix(parts[r], parts'[r])
    /\ IsPrefix(parts[r] \o BodyFragments(queue[r]), parts'[r] \o BodyFragments(queue'[r]))
    /\ queue'[r] # queue[r] /\ ppc'[r] = ppc[r] /\ stream'[r] = stream[r]
       => parts'[r] \o BodyFragments(queue'[r]) = parts[r] \o BodyFragments(queue[r])
    /\ hpc[r] # "done" /\ hpc'[r] = "done" => parts'[r] = parts[r] \o BodyFragments(queue[r])

\* C35: for every fragment source that ends, normally or by raising, the
\* producer enqueues exactly one end marker, behind every body fragment, and
\* never waits for the consumer; the iteration of the returned body delivers
\* every enqueued fragment once, in order, and terminates
C35_OneEndMarkerAndTermination ==
    /\ []MarkerInvariant(1)
    /\ [][DeliveredInOrder(1)]_vars
    /\ (SourceEnded(1) /\ hpc[1] = "drain") ~> (hpc[1] = "done")

\* the source raised after two body fragments, and the iteration of the
\* body has ended with both delivered
C35_Witness ==
    /\ ppc[1] = "failed" /\ hpc[1] = "done" /\ req[1].route = "random"
    /\ Len(parts[1]) = 2 /\ queue[1] = <<>>
    /\ Join(parts[1]) = AfterNewline(stream[1].text)

\* request g is a generation that left the entry the cache holds for key k
Populated(g, k) ==
    /\ Generated(g) /\ req[g].method = "GET" /\ CacheKey(g) = k
    /\ k \in DOMAIN cache
    /\ cache[k] = [content_type |-> resp[g].media_type, body |-> resp[g].body]

\* C36 as stated: a cache hit carries the status of the generation that
\* populated the entry
C36_AsStated ==
    [][\A r \in Reqs, g \in Reqs :
          ArrivesAtCachedKey(r) /\ Populated(g, cache_key(req'[r].url_path, req'[r].query))
          => resp'[r].status_code = resp[g].status_code]_vars

\* C36 amended: a cache hit carries status 200 whatever the status of the
\* generation that populated the entry was; the two are the same only when
\* the page was generated with status 200
C36_CacheHitIsAlways200 ==
    [][\A r \in Reqs :
          ArrivesAtCachedKey(r)
          => /\ resp'[r].status_code = 200
             /\ \A g \in Reqs :
                   Populated(g, cache_key(req'[r].url_path, req'[r].query))
                   => (resp'[r].status_code = resp[g].status_code <=> resp[g].status_code = 200)]_vars

\* the first GET was generated with status 201 and the second GET of the
\* key was answered from the cache with status 200
C36_Witness ==
    /\ Populated(1, CacheKey(1)) /\ resp[1].status_code = 201
    /\ hist[2].branch = "cache_hit" /\ CacheKey(2) = CacheKey(1)
    /\ resp[2].status_code = 200 /\ resp[2].body = resp[1].body

\* every request that arrived has been answered and every memory task that
\* was created has run to its end
AllFinished ==
    \A r \in Reqs :
        /\ hpc[r] \in {"idle", "done"}
        /\ task[r] # <<>> => mc[r].pc = "done"

\* the page a was requested, and only by GETs with an empty query string
OnlyPlainGets ==
    /\ hpc[1] = "done"
    /\ \A r \in Reqs :
          hpc[r] # "idle" => req[r] = [route |-> "catchall", method |-> "GET", url_path |-> <<"a">>, query |-> <<>>]

\* the requests that generated the page
Generations == { g \in Reqs : Generated(g) }

\* C37 as stated: when everything has finished, the hash of the memory
\* record of the page is the hash of the body the response cache holds
C37_AsStated ==
    AllFinished /\ OnlyPlainGets
    => /\ <<"/", "a">> \in DOMAIN page_memory
       /\ page_memory[<<"/", "a">>].hash = sha256(cache[cache_key(<<"a">>, <<>>)].body)

\* C37 amended: when everything has finished, the hash of the memory record
\* of the page is the hash of the body of one of the generated responses;
\* it is the hash of the cached body when the page was generated once
C37_HashOfSomeGeneration ==
    AllFinished /\ OnlyPlainGets
    => /\ <<"/", "a">> \in DOMAIN page_memory
       /\ \E g \in Generations : page_memory[<<"/", "a">>].hash = sha256(resp[g].body)
       /\ Cardinality(Generations) = 1
          => page_memory[<<"/", "a">>].hash = sha256(cache[cache_key(<<"a">>, <<>>)].body)

\* two GETs generated the page together with different bodies; the cache
\* holds the body of one and the memory record the hash of the other
C37_Witness ==
    /\ AllFinished /\ OnlyPlainGets
    /\ Generations = {1, 2}
    /\ cache[cache_key(<<"a">>, <<>>)].body = resp[2].body
    /\ page_memory[<<"/", "a">>].hash = sha256(resp[1].body)
    /\ resp[1].body # resp[2].body

\* the token score with the stop words filtered on both sides
BothSidesScore(url_path, path) ==
    Cardinality((SplitPath(Lower(url_path)) \ StopSet) \cap (SplitPath(Lower(path)) \ StopSet))

\* the two paths have a token in common, and only stop words
ShareOnlyStopWords(url_path, path) ==
    /\ SplitPath(Lower(url_path)) \cap SplitPath(Lower(path)) # {}
    /\ SplitPath(Lower(url_path)) \cap SplitPath(Lower(path)) \subseteq StopSet

\* C38: the token score is what filtering the stop words on both sides
\* gives; a stored path that shares only stop words with the query path has
\* token score 0, and is not in the result unless a record links to the
\* query path
C38_StopWordsNeverCount ==
    RelatedCalled =>
        LET items == call.arg[1]
            url_path == call.arg[2]
        IN  \A i \in 1..Len(items) :
                /\ token_score(items, url_path, i) = BothSidesScore(url_path, items[i].path)
                /\ ShareOnlyStopWords(url_path, items[i].path)
                   => /\ token_score(items, url_path, i) = 0
                      /\ Backlinks(items, url_path) = 0 => PlaceInResult(items[i].path) = 0

\* related("/API/data") over a store that holds "/api/cars" and no links
\* is empty
C38_Witness ==
    /\ RelatedCalled
    /\ call.arg[2] = API_DATA_UPPER
    /\ \E i \in 1..Len(call.arg[1]) : call.arg[1][i].path = API_CARS
    /\ ShareOnlyStopWords(API_DATA_UPPER, API_CARS)
    /\ Backlinks(call.arg[1], API_DATA_UPPER) = 0
    /\ out = <<>>

\* a call that ends with a related-page query
OrderCalled == call.fn \in {"get_related_memory", "remember_page, get_related_memory"}

\* the store the query of the call runs over; its order does not matter here
StoreQueried ==
    IF call.fn = "get_related_memory" THEN call.arg[1]
    ELSE DictSet(call.arg[1], call.arg[4], [path |-> call.arg[4], links |-> call.arg[5]])

\* the place at which a path was first inserted into the store of the call
FirstInserted(path) == CHOOSE i \in 1..Len(call.arg[1]) : call.arg[1][i].path = path

\* C39: candidates with equal scores are returned in the order in which
\* their paths were first inserted into the store, also after one of the
\* paths has been remembered again
C39_TiesInInsertionOrder ==
    OrderCalled =>
        \A k \in 1..Len(out), l \in 1..Len(out) :
            /\ k < l
            /\ ClaimedScore(StoreQueried, call.arg[2], out[k]) = ClaimedScore(StoreQueried, call.arg[2], out[l])
            => FirstInserted(out[k]) < FirstInserted(out[l])

\* "/electric-cars" was inserted before "/api/cars" and has been remembered
\* again; related("/cars/hybrid") still lists it before "/api/cars"
C39_Witness ==
    /\ call.fn = "remember_page, get_related_memory"
    /\ call.arg[1][1].path = ELECTRIC_CARS /\ call.arg[1][2].path = API_CARS /\ call.arg[1][3].path = FUEL_ECONOMY
    /\ call.arg[2] = CARS_HYBRID /\ call.arg[4] = ELECTRIC_CARS /\ call.arg[5] = <<>>
    /\ out = <<ELECTRIC_CARS, API_CARS>>

====
